---- MODULE Spec2Model ----
(***************************************************************************)
(* A model of db_viewer's data-access layer: ClientDatabaseManager         *)
(* (client-database.ts), the IndexedDB store behind it and the table       *)
(* viewer's fetchTableData.                                                *)
(*                                                                         *)
(* The specifications that share the module:                               *)
(*   SpecMut    row mutations and reads interleaved on one database handle *)
(*   SpecStore  loading, removing and restoring databases across sessions  *)
(*   SpecRace   components calling initialize() concurrently               *)
(*   SpecQuery  executeQuery under the result-limiter configuration        *)
(*   SpecConfig the result limiter's configuration                         *)
(*   SpecBrowse the table viewer's fetchTableData and getTableData         *)
(*   SpecFilter the viewer's search, sort and column filters               *)
(*   SpecSql    the SQL text handed to the engine                          *)
(*   SpecEdit   browsing a table after a mutation                          *)
(*   SpecWhere  the WHERE clause built for a row identifier                *)
(* JavaScript runs one synchronous segment at a time, so an action is the  *)
(* code of a call between two awaits.                                      *)
(***************************************************************************)
EXTENDS Integers, Sequences, FiniteSets, TLC

VARIABLES
    \* ---- SpecMut: one loaded, persisted database with table t(id INTEGER PRIMARY KEY, name TEXT)
    db,          \* the sql.js handle: [rows, inTxn, snap, log]
    pc,          \* per call: "idle", "awaitStore", "awaitColumns", "awaitData", "done"
    kind,        \* per call: the method called
    args,        \* per call: [identifier, values]
    raised,      \* per call: the error the call rejected with, "none" if none
    buf,         \* per call: the buffer exported by persistDatabaseChanges
    storeQueue,  \* IndexedDB put requests not yet completed, in request order
    stored,      \* the record of this database in the IndexedDB object store
    size,        \* info.size of the DatabaseInfo
    returned     \* per call: the QueryResult a getTableData call resolved with, if any

VARIABLES
    \* ---- the result limiter's configuration (SpecQuery, SpecBrowse)
    useMemoryOptimizations,
    maxQueryResultRows,
    \* ---- SpecQuery: the SQL query box
    result       \* the last executeQuery call: what the statement produced and what came back

VARIABLES
    \* ---- SpecBrowse: DataTableViewer's state for one table
    tableSize,   \* number of rows of the table
    itemsPerPage,
    currentPage,
    searchTerm,
    sortColumn,
    sortDirection,
    data,        \* the QueryResult passed to setData
    request      \* the last fetchTableData: what it was asked and the SQL it issued

VARIABLES
    \* ---- SpecStore: the manager's loaded databases and the IndexedDB object store
    initialized,
    allowLargeFiles,
    databases,            \* keys of the Map of loaded databases
    currentDatabaseId,    \* currentDatabaseInfo?.id
    lastSelectedDatabase, \* localStorage item 'lastSelectedDatabase'
    persisted,            \* keys of the records in the object store
    requests,             \* IndexedDB requests not yet completed, in request order
    nextDatabaseId,       \* the id the next loaded file gets
    session,              \* page loads so far
    loaded,               \* ids whose loadDatabase call has resolved
    removed,              \* ids removeDatabase or clearAllStoredDatabases was called on
    earlier,              \* loaded and removed when the current session began
    restored,             \* ids restoreDatabasesFromStorage restored in this session
    files,                \* per id given out: the file's size and the method that loaded it
    dbOf,                 \* the Map's entry.db per loaded id: a handle <<id, n>>
    opened,               \* handles `new Database(...)` returned in this session
    closed,               \* handles db.close() was called on
    currentDatabase,      \* the manager's currentDatabase handle
    initPc                \* per component calling initialize(): "idle", "restoring", "done"

VARIABLES
    \* ---- SpecFilter, SpecSql: the viewer's column filters and the SQL handed to the engine
    tableName,            \* the viewer's tableName prop
    activeFilters,
    issued,               \* the statements the last handler handed to the engine
    fetched,              \* the table, search and filters of the last fetchTableData
    alerted,              \* the alert the last handler showed
    tables,               \* SidebarNavigation's tables
    columnDistinctValues

mutVars == <<db, pc, kind, args, raised, buf, storeQueue, stored, size, returned>>

cfgVars == <<useMemoryOptimizations, maxQueryResultRows>>

browseVars == <<tableSize, itemsPerPage, currentPage, searchTerm, sortColumn, sortDirection,
                data, request>>

handleVars == <<files, dbOf, opened, closed, currentDatabase, initPc>>

storeVars == <<initialized, allowLargeFiles, databases, currentDatabaseId,
               lastSelectedDatabase, persisted, requests, nextDatabaseId, session,
               loaded, removed, earlier, restored, handleVars>>

filterVars == <<tableName, activeFilters, issued, fetched, alerted, tables, columnDistinctValues>>

vars == <<mutVars, cfgVars, result, browseVars, storeVars, filterVars>>

----------------------------------------------------------------------------
(* Bounds *)
MaxCalls == 2
MaxRowId == 3

Calls == 1..MaxCalls
RowIds == 1..MaxRowId

----------------------------------------------------------------------------
(* Values *)
INTERNAL_ROWID_COLUMN == "__rowid__"

\* An optional JS value is a sequence: <<>> for null/undefined, <<v>> for v.
Nothing == <<>>
Some(v) == <<v>>

\* RowIdentifier { rowid?, primaryKeyValues? }; defined = FALSE is a null identifier.
\* An object is the sequence of its <<key, value>> entries in insertion order.
RowIdentifier(rowid, pkDefined, pkEntries) ==
    [defined |-> TRUE, rowid |-> rowid, pk |-> [defined |-> pkDefined, entries |-> pkEntries]]

NullIdentifier ==
    [defined |-> FALSE, rowid |-> Nothing, pk |-> [defined |-> FALSE, entries |-> <<>>]]

Identifiers ==
    { NullIdentifier,
      RowIdentifier(Some(1), FALSE, <<>>),
      RowIdentifier(Nothing, TRUE, << <<"id", 2>> >>),
      RowIdentifier(Nothing, TRUE, <<>>) }

ValueMaps ==
    { <<>>,
      << <<INTERNAL_ROWID_COLUMN, "1">> >>,
      << <<INTERNAL_ROWID_COLUMN, "1">>, <<"name", "z">> >> }

NoArgs == [identifier |-> NullIdentifier, values |-> <<>>]

\* How the engine answers a statement: it executes it, rejects it (constraint or
\* type error) leaving the transaction open, or rejects it and aborts the
\* transaction itself (after which ROLLBACK fails: no transaction is active).
Verdicts == {"ok", "reject", "rejectAbort"}

----------------------------------------------------------------------------
(* Configuration and component state at construction *)

\* private maxQueryResultRows = 1000
DefaultMaxQueryResultRows == 1000

\* useState(50) of itemsPerPage
DefaultItemsPerPage == 50

\* A QueryResult's rows are consecutive rows of the statement's output; they are
\* kept as the positions of the first and the last row pushed.
NoRows == [first |-> 1, last |-> 0]

RowCount(rows) == rows.last - rows.first + 1

NoResult == [produced |-> 0, optimized |-> TRUE, maxRows |-> DefaultMaxQueryResultRows,
             rows |-> NoRows, rowCount |-> 0, totalCount |-> 0]

NoData == [rows |-> NoRows, rowCount |-> 0, totalCount |-> 0, limit |-> 0, offset |-> 0]

NoRequest == [path |-> "none", page |-> 1, pageSize |-> DefaultItemsPerPage,
              optimized |-> TRUE, maxRows |-> DefaultMaxQueryResultRows,
              matching |-> 0, sqlLimit |-> 0, sqlOffset |-> 0, countRan |-> FALSE]

ConfigInit ==
    /\ useMemoryOptimizations = TRUE
    /\ maxQueryResultRows = DefaultMaxQueryResultRows

QueryInit == result = NoResult

BrowseInit(n) ==
    /\ tableSize = n
    /\ itemsPerPage = DefaultItemsPerPage
    /\ currentPage = 1
    /\ searchTerm = <<>>
    /\ sortColumn = Nothing
    /\ sortDirection = Nothing
    /\ data = NoData
    /\ request = NoRequest

\* A Map without entries.
NoEntries == [id \in {} |-> <<>>]

\* The components whose mount effect awaits clientDatabaseManager.initialize().
InitCallers == {"Home", "SidebarNavigation"}

\* The manager and the browser profile before the first page load.
StoreInit ==
    /\ initialized = FALSE
    /\ allowLargeFiles = FALSE
    /\ databases = {}
    /\ currentDatabaseId = Nothing
    /\ lastSelectedDatabase = Nothing
    /\ persisted = {}
    /\ requests = <<>>
    /\ nextDatabaseId = 1
    /\ session = 1
    /\ loaded = {}
    /\ removed = {}
    /\ earlier = [loaded |-> {}, removed |-> {}]
    /\ restored = {}
    /\ files = NoEntries
    /\ dbOf = NoEntries
    /\ opened = {}
    /\ closed = {}
    /\ currentDatabase = Nothing
    /\ initPc = [caller \in InitCallers |-> "idle"]

NoFetch == [table |-> <<>>, search |-> <<>>, filters |-> <<>>]

\* The viewer before a table is shown, the sidebar before its first fetch.
FilterInit ==
    /\ tableName = Nothing
    /\ activeFilters = <<>>
    /\ issued = <<>>
    /\ fetched = NoFetch
    /\ alerted = Nothing
    /\ tables = <<>>
    /\ columnDistinctValues = {}

----------------------------------------------------------------------------
(* The engine (sql.js Database) *)

Entry(c, op, ok, where) == [call |-> c, op |-> op, ok |-> ok, where |-> where]

Logged(d, c, op, ok, where) == [d EXCEPT !.log = Append(@, Entry(c, op, ok, where))]

\* db.exec('BEGIN TRANSACTION;')
Begin(d, c) ==
    IF d.inTxn
    THEN [d |-> Logged(d, c, "BEGIN", FALSE, <<>>), ok |-> FALSE]
    ELSE [d |-> Logged([d EXCEPT !.inTxn = TRUE, !.snap = d.rows], c, "BEGIN", TRUE, <<>>),
          ok |-> TRUE]

\* db.exec('COMMIT;')
Commit(d, c) ==
    IF d.inTxn
    THEN [d |-> Logged([d EXCEPT !.inTxn = FALSE], c, "COMMIT", TRUE, <<>>), ok |-> TRUE]
    ELSE [d |-> Logged(d, c, "COMMIT", FALSE, <<>>), ok |-> FALSE]

\* db.exec('ROLLBACK;')
Rollback(d, c) ==
    IF d.inTxn
    THEN [d |-> Logged([d EXCEPT !.inTxn = FALSE, !.rows = d.snap], c, "ROLLBACK", TRUE, <<>>),
          ok |-> TRUE]
    ELSE [d |-> Logged(d, c, "ROLLBACK", FALSE, <<>>), ok |-> FALSE]

ColumnValue(rows, r, col) ==
    IF col \in {"rowid", "id"} THEN Some(r) ELSE Some(rows[r])

\* WHERE col1 = ? AND col2 = ? ...; a statement without conditions matches every row.
Matches(rows, r, clause, params) ==
    \A i \in 1..Len(clause) : ColumnValue(rows, r, clause[i]) = Some(params[i])

Max(S) == CHOOSE x \in S : \A y \in S : y <= x

NextRowId(rows) == IF DOMAIN rows = {} THEN 1 ELSE Max(DOMAIN rows) + 1

\* The value bound to column "name", or the column default (NULL) when absent.
NameOf(entries) ==
    IF \E i \in 1..Len(entries) : entries[i][1] = "name"
    THEN (entries[CHOOSE i \in 1..Len(entries) : entries[i][1] = "name"])[2]
    ELSE "NULL"

Sets(entries, col) == \E i \in 1..Len(entries) : entries[i][1] = col

\* The value SET binds to column col.
Bound(entries, col) == (entries[CHOOSE i \in 1..Len(entries) : entries[i][1] = col])[2]

\* The rows an UPDATE ... WHERE matches.
Hit(rows, stmt) == {r \in DOMAIN rows : Matches(rows, r, stmt.where, stmt.params)}

\* The rowid of row r after SET: column id (INTEGER PRIMARY KEY) is the rowid.
NewRowId(stmt, r) == IF Sets(stmt.set, "id") THEN Bound(stmt.set, "id") ELSE r

\* The primary key stays unique: no updated row takes the key of a row the
\* statement leaves alone, or of another updated row.
Accepts(rows, stmt) ==
    stmt.op = "UPDATE" =>
        \A r \in Hit(rows, stmt) :
           /\ NewRowId(stmt, r) \notin DOMAIN rows \ Hit(rows, stmt)
           /\ \A x \in Hit(rows, stmt) : NewRowId(stmt, x) = NewRowId(stmt, r) => x = r

Apply(rows, stmt) ==
    CASE stmt.op = "INSERT" ->
           [r \in DOMAIN rows \cup {NextRowId(rows)} |->
              IF r \in DOMAIN rows THEN rows[r] ELSE NameOf(stmt.set)]
      [] stmt.op = "UPDATE" ->
           LET hit == Hit(rows, stmt)
               source(x) == IF x \in DOMAIN rows \ hit THEN x
                            ELSE CHOOSE r \in hit : NewRowId(stmt, r) = x
           IN [x \in (DOMAIN rows \ hit) \cup {NewRowId(stmt, r) : r \in hit} |->
                 IF x \in DOMAIN rows \ hit THEN rows[x]
                 ELSE IF Sets(stmt.set, "name") THEN Bound(stmt.set, "name")
                 ELSE rows[source(x)]]
      [] stmt.op = "DELETE" ->
           [r \in {x \in DOMAIN rows : ~Matches(rows, x, stmt.where, stmt.params)} |-> rows[r]]

\* db.run(sql, params); a statement that would break the primary key is
\* rejected whatever else the engine would answer.
Run(d, c, stmt, verdict) ==
    CASE verdict = "ok" /\ Accepts(d.rows, stmt) ->
           [d |-> Logged([d EXCEPT !.rows = Apply(d.rows, stmt)], c, stmt.op, TRUE, stmt.where),
            ok |-> TRUE]
      [] verdict = "reject" \/ (verdict = "ok" /\ ~Accepts(d.rows, stmt)) ->
           [d |-> Logged(d, c, stmt.op, FALSE, stmt.where), ok |-> FALSE]
      [] verdict = "rejectAbort" ->
           [d |-> Logged([d EXCEPT !.inTxn = FALSE, !.rows = d.snap], c, stmt.op, FALSE, stmt.where),
            ok |-> FALSE]

\* The rowids of a table in ascending order.
RECURSIVE Ascending(_)
Ascending(S) ==
    IF S = {} THEN <<>>
    ELSE LET m == CHOOSE x \in S : \A y \in S : x <= y
         IN <<m>> \o Ascending(S \ {m})

\* db.export(): the database image, one record per row in rowid order.
Export(d) == [i \in 1..Cardinality(DOMAIN d.rows) |->
                 <<Ascending(DOMAIN d.rows)[i], d.rows[Ascending(DOMAIN d.rows)[i]]>>]

----------------------------------------------------------------------------
(* ClientDatabaseManager: row identity and the transactional mutator *)

\* Object.entries(values).filter(([key]) => key !== INTERNAL_ROWID_COLUMN)
Entries(values) == SelectSeq(values, LAMBDA e : e[1] # INTERNAL_ROWID_COLUMN)

\* Property keys that are array indices ("0", "1", ...): a JS object lists them
\* first, in ascending numeric order, before its other keys in insertion order.
ArrayIndexKeys == <<"0", "1", "2", "3", "4", "5", "6", "7", "8", "9">>

IsArrayIndex(key) == \E n \in 1..Len(ArrayIndexKeys) : ArrayIndexKeys[n] = key

\* Object.entries(object) / Object.keys / Object.values of an object given by
\* its entries in insertion order.
OwnEntries(entries) ==
    LET indexed(n) == SelectSeq(entries, LAMBDA e : e[1] = ArrayIndexKeys[n])
        RECURSIVE upTo(_)
        upTo(n) == IF n = 0 THEN <<>> ELSE upTo(n - 1) \o indexed(n)
    IN upTo(Len(ArrayIndexKeys)) \o SelectSeq(entries, LAMBDA e : ~IsArrayIndex(e[1]))

buildWhereClauseKeyFirstMutant(identifier) ==
    IF ~identifier.defined
    THEN [clause |-> <<>>, params |-> <<>>]
    ELSE IF identifier.pk.defined /\ Len(identifier.pk.entries) > 0
    THEN [clause |-> [i \in 1..Len(identifier.pk.entries) |-> OwnEntries(identifier.pk.entries)[i][1]],
          params |-> [i \in 1..Len(identifier.pk.entries) |-> OwnEntries(identifier.pk.entries)[i][2]]]
    ELSE IF identifier.rowid # Nothing
    THEN [clause |-> <<"rowid">>, params |-> <<identifier.rowid[1]>>]
    ELSE [clause |-> <<>>, params |-> <<>>]

buildWhereClause(identifier) ==
    IF ~identifier.defined
    THEN [clause |-> <<>>, params |-> <<>>]
    ELSE IF identifier.rowid # Nothing
    THEN [clause |-> <<"rowid">>, params |-> <<identifier.rowid[1]>>]
    ELSE IF identifier.pk.defined /\ Len(identifier.pk.entries) > 0
    THEN [clause |-> [i \in 1..Len(identifier.pk.entries) |-> OwnEntries(identifier.pk.entries)[i][1]],
          params |-> [i \in 1..Len(identifier.pk.entries) |-> OwnEntries(identifier.pk.entries)[i][2]]]
    ELSE [clause |-> <<>>, params |-> <<>>]

WhereUncheckedMutant(where) == TRUE

\* The guard `if (!where.clause) throw ...` of updateRow and deleteRow.
WhereUsable(where) == where.clause # <<>>

CatchRethrowsRollbackMutant(error, rollbackOk) ==
    IF rollbackOk THEN error ELSE "RollbackError"

\* catch (error) { try { ROLLBACK } catch {} throw error; }: what the call rejects with.
Rethrown(error, rollbackOk) == error

CatchWithoutRollbackMutant(d, c) == [d |-> d, ok |-> TRUE]

\* catch (error) { try { db.exec('ROLLBACK;'); } catch {} ... }
CatchRollback(d, c) == Rollback(d, c)

ExportBeforeStatementMutant(before, after, c) ==
    [d |-> Logged(after, c, "EXPORT", TRUE, <<>>), buffer |-> Export(before)]

\* const buffer = db.export() in persistDatabaseChanges, called after COMMIT.
ExportImage(before, after, c) ==
    [d |-> Logged(after, c, "EXPORT", TRUE, <<>>), buffer |-> Export(after)]

\* The StoredDatabaseInfo that persistDatabaseChanges hands to storeDatabase.
StoredInfo(buffer) == [size |-> Len(buffer), buffer |-> buffer]

SizeSetBeforeStoreMutant(ok, current, buffer) == Len(buffer)

SizeOnlyGrowsMutant(ok, current, buffer) ==
    IF ok /\ Len(buffer) > current THEN Len(buffer) ELSE current

\* `await storeDatabase(storedInfo); info.size = buffer.length;`: info.size after the await.
TrackedSize(ok, current, buffer) == IF ok THEN Len(buffer) ELSE current

\* One synchronous segment of call c.
CallStep(c, k, a, newpc, err, d, b, q) ==
    /\ pc' = [pc EXCEPT ![c] = newpc]
    /\ kind' = [kind EXCEPT ![c] = k]
    /\ args' = [args EXCEPT ![c] = a]
    /\ raised' = [raised EXCEPT ![c] = err]
    /\ db' = d
    /\ buf' = [buf EXCEPT ![c] = b]
    /\ storeQueue' = q
    /\ UNCHANGED <<stored, size, returned, cfgVars, result, browseVars, storeVars, filterVars>>

\* BEGIN; try { run; COMMIT; persistDatabaseChanges up to its await }
\* catch { ROLLBACK; throw }. BEGIN is outside the try block.
Transact(c, k, a, stmt, verdict) ==
    LET b == Begin(db, c) IN
    IF ~b.ok
    THEN CallStep(c, k, a, "done", "EngineError", b.d, <<>>, storeQueue)
    ELSE LET r == Run(b.d, c, stmt, verdict) IN
         IF ~r.ok
         THEN LET rb == CatchRollback(r.d, c) IN
              CallStep(c, k, a, "done", Rethrown("EngineError", rb.ok), rb.d, <<>>, storeQueue)
         ELSE LET cm == Commit(r.d, c) IN
              IF ~cm.ok
              THEN LET rb == CatchRollback(cm.d, c) IN
                   CallStep(c, k, a, "done", Rethrown("EngineError", rb.ok), rb.d, <<>>,
                            storeQueue)
              ELSE LET ex == ExportImage(b.d, cm.d, c) IN
                   CallStep(c, k, a, "awaitStore", "none", ex.d, ex.buffer,
                            Append(storeQueue, c))

insertRow(c, values, verdict) ==
    /\ pc[c] = "idle"
    /\ NextRowId(db.rows) <= MaxRowId
    /\ LET a == [identifier |-> NullIdentifier, values |-> values]
           entries == Entries(values)
       IN Transact(c, "insertRow", a,
                   [op |-> "INSERT", set |-> entries, where |-> <<>>, params |-> <<>>],
                   verdict)

NothingToUpdateIgnoredMutant(entries) == FALSE

\* if (entries.length === 0) return;
NothingToUpdate(entries) == Len(entries) = 0

updateRow(c, identifier, values, verdict) ==
    /\ pc[c] = "idle"
    /\ LET a == [identifier |-> identifier, values |-> values]
           entries == Entries(values)
           where == buildWhereClause(identifier)
       IN IF NothingToUpdate(entries)
          THEN CallStep(c, "updateRow", a, "done", "none", db, <<>>, storeQueue)
          ELSE IF ~WhereUsable(where)
          THEN CallStep(c, "updateRow", a, "done", "InvalidIdentifier", db, <<>>, storeQueue)
          ELSE Transact(c, "updateRow", a,
                        [op |-> "UPDATE", set |-> entries, where |-> where.clause,
                         params |-> where.params],
                        verdict)

deleteRow(c, identifier, verdict) ==
    /\ pc[c] = "idle"
    /\ LET a == [identifier |-> identifier, values |-> <<>>]
           where == buildWhereClause(identifier)
       IN IF ~WhereUsable(where)
          THEN CallStep(c, "deleteRow", a, "done", "InvalidIdentifier", db, <<>>, storeQueue)
          ELSE Transact(c, "deleteRow", a,
                        [op |-> "DELETE", set |-> <<>>, where |-> where.clause,
                         params |-> where.params],
                        verdict)

\* The put request of the oldest pending storeDatabase completes (IndexedDB runs
\* readwrite transactions on one store in the order they were created), and the
\* call awaiting it resumes: info.size = buffer.length, or the catch block.
storeDatabaseDone(ok) ==
    /\ storeQueue # <<>>
    /\ LET c == Head(storeQueue) IN
       /\ storeQueue' = Tail(storeQueue)
       /\ stored' = IF ok THEN StoredInfo(buf[c]) ELSE stored
       /\ size' = TrackedSize(ok, size, buf[c])
       /\ pc' = [pc EXCEPT ![c] = "done"]
       /\ IF ok
          THEN UNCHANGED <<db, raised>>
          ELSE LET rb == CatchRollback(db, c) IN
               /\ db' = rb.d
               /\ raised' = [raised EXCEPT ![c] = Rethrown("PersistenceError", rb.ok)]
       /\ UNCHANGED <<kind, args, buf, returned, cfgVars, result, browseVars, storeVars, filterVars>>

\* executeQuery(sql) with a row-returning statement: prepare, step to the end, free.
executeQuery(c) ==
    /\ pc[c] = "idle"
    /\ CallStep(c, "executeQuery", NoArgs, "done", "none",
                Logged(db, c, "SELECT", TRUE, <<>>), <<>>, storeQueue)

\* fetchTableData on its plain path: getTableData runs COUNT(*) and the page
\* query in one synchronous segment.
getTableData(c) ==
    /\ pc[c] = "idle"
    /\ CallStep(c, "getTableData", NoArgs, "done", "none",
                Logged(Logged(db, c, "COUNT", TRUE, <<>>), c, "SELECT", TRUE, <<>>),
                <<>>, storeQueue)

\* fetchTableData on its composed path (search, sort or filters): it awaits
\* getTableColumns, then executeQuery(query), then executeQuery(countQuery).
fetchTableDataColumns(c) ==
    /\ pc[c] = "idle"
    /\ CallStep(c, "fetchTableData", NoArgs, "awaitColumns", "none",
                Logged(db, c, "PRAGMA", TRUE, <<>>), <<>>, storeQueue)

fetchTableDataQuery(c) ==
    /\ pc[c] = "awaitColumns"
    /\ CallStep(c, kind[c], args[c], "awaitData", "none",
                Logged(db, c, "SELECT", TRUE, <<>>), <<>>, storeQueue)

fetchTableDataCount(c) ==
    /\ pc[c] = "awaitData"
    /\ CallStep(c, kind[c], args[c], "done", "none",
                Logged(db, c, "COUNT", TRUE, <<>>), <<>>, storeQueue)

InitialRows == (1 :> "a") @@ (2 :> "b")

InitialDb == [rows |-> InitialRows, inTxn |-> FALSE, snap |-> InitialRows, log |-> <<>>]

\* The state after loadDatabase(file): the file is open, stored and tracked.
InitMut ==
    /\ db = InitialDb
    /\ pc = [c \in Calls |-> "idle"]
    /\ kind = [c \in Calls |-> "none"]
    /\ args = [c \in Calls |-> NoArgs]
    /\ raised = [c \in Calls |-> "none"]
    /\ buf = [c \in Calls |-> <<>>]
    /\ storeQueue = <<>>
    /\ stored = StoredInfo(Export(InitialDb))
    /\ size = Len(Export(InitialDb))
    /\ returned = [c \in Calls |-> Nothing]
    /\ ConfigInit /\ QueryInit /\ BrowseInit(0) /\ StoreInit /\ FilterInit

NextMut ==
    \/ \E c \in Calls, values \in ValueMaps, verdict \in Verdicts :
          insertRow(c, values, verdict)
    \/ \E c \in Calls, identifier \in Identifiers, values \in ValueMaps, verdict \in Verdicts :
          updateRow(c, identifier, values, verdict)
    \/ \E c \in Calls, identifier \in Identifiers, verdict \in Verdicts :
          deleteRow(c, identifier, verdict)
    \/ \E ok \in BOOLEAN : storeDatabaseDone(ok)
    \/ \E c \in Calls : executeQuery(c)
    \/ \E c \in Calls : getTableData(c)
    \/ \E c \in Calls : fetchTableDataColumns(c)
    \/ \E c \in Calls : fetchTableDataQuery(c)
    \/ \E c \in Calls : fetchTableDataCount(c)

SpecMut == InitMut /\ [][NextMut]_vars

----------------------------------------------------------------------------
(* Claims about the transactional mutator, checked under SpecMut *)

CallLog(d, c) == SelectSeq(d.log, LAMBDA e : e.call = c)

Ops(d, c) == [i \in 1..Len(CallLog(d, c)) |-> CallLog(d, c)[i].op]

StatementOf(k) ==
    CASE k = "insertRow" -> "INSERT"
      [] k = "updateRow" -> "UPDATE"
      [] k = "deleteRow" -> "DELETE"
      [] OTHER -> "none"

Mutations == {"insertRow", "updateRow", "deleteRow"}

\* Neither a non-null native rowid nor a non-empty primary-key mapping.
InvalidIdentifier(identifier) ==
    \/ ~identifier.defined
    \/ /\ identifier.rowid = Nothing
       /\ (~identifier.pk.defined \/ identifier.pk.entries = <<>>)

\* C1: updateRow (with a usable column) and deleteRow given an identifier with
\* neither a rowid nor a non-empty primary-key mapping fail before BEGIN or any
\* statement reaches the engine, and no UPDATE or DELETE is ever issued with an
\* empty WHERE clause.
C1_InvalidIdentifierNeverReachesEngine ==
    /\ \A i \in 1..Len(db.log) :
          db.log[i].op \in {"UPDATE", "DELETE"} => db.log[i].where # <<>>
    /\ \A c \in Calls :
          ( /\ kind[c] \in {"updateRow", "deleteRow"}
            /\ kind[c] = "updateRow" => Entries(args[c].values) # <<>>
            /\ InvalidIdentifier(args[c].identifier) )
          => /\ pc[c] = "done"
             /\ raised[c] = "InvalidIdentifier"
             /\ CallLog(db, c) = <<>>

C1_Witness ==
    \E c, e \in Calls :
        /\ kind[c] = "updateRow"
        /\ Entries(args[c].values) # <<>>
        /\ InvalidIdentifier(args[c].identifier)
        /\ raised[c] = "InvalidIdentifier"
        /\ kind[e] = "deleteRow"
        /\ \E i \in 1..Len(db.log) : db.log[i].op = "DELETE" /\ db.log[i].ok

\* In this step the engine rejected the statement of call c.
StatementRejected(c) ==
    /\ pc[c] = "idle"
    /\ \E i \in 1..Len(CallLog(db', c)) :
          /\ CallLog(db', c)[i].op \in {"INSERT", "UPDATE", "DELETE"}
          /\ ~CallLog(db', c)[i].ok

\* C2: when the engine rejects the statement of insertRow, updateRow or
\* deleteRow, ROLLBACK is issued, the table's rows are those before the call,
\* nothing is written to the persistent store, and the call rejects with the
\* engine's error, also when ROLLBACK itself fails.
C2_RejectedStatementRollsBack ==
    [][\A c \in Calls :
          StatementRejected(c) =>
             /\ Ops(db', c) = <<"BEGIN", StatementOf(kind'[c]), "ROLLBACK">>
             /\ db'.rows = db.rows
             /\ ~db'.inTxn
             /\ stored' = stored
             /\ size' = size
             /\ storeQueue' = storeQueue
             /\ pc'[c] = "done"
             /\ raised'[c] = "EngineError"]_vars

C2_Witness ==
    \E c \in Calls :
        /\ raised[c] = "EngineError"
        /\ Len(CallLog(db, c)) = 3
        /\ CallLog(db, c)[3].op = "ROLLBACK"
        /\ ~CallLog(db, c)[3].ok
        /\ stored = StoredInfo(Export(InitialDb))

\* C3: a successful insertRow, updateRow or deleteRow issues BEGIN, its
\* statement, COMMIT and the export in that order, the exported image is the
\* committed database, the image is written to the store only afterwards, and
\* info.size is then the length of the exported image. (The only successful
\* mutation that issues nothing is updateRow without a usable column.)
C3_CommitThenExportThenStore ==
    [][\A c \in Calls :
          /\ (pc[c] = "idle" /\ pc'[c] = "awaitStore") =>
                /\ Ops(db', c) = <<"BEGIN", StatementOf(kind'[c]), "COMMIT", "EXPORT">>
                /\ \A i \in 1..4 : CallLog(db', c)[i].ok
                /\ ~db'.inTxn
                /\ buf'[c] = Export(db')
                /\ storeQueue' = Append(storeQueue, c)
                /\ stored' = stored
          /\ (pc[c] = "awaitStore" /\ pc'[c] = "done" /\ raised'[c] = "none") =>
                /\ stored' = [size |-> Len(buf[c]), buffer |-> buf[c]]
                /\ size' = Len(buf[c])
                /\ db' = db
          /\ ( /\ kind'[c] \in Mutations
               /\ pc[c] # "done" /\ pc'[c] = "done" /\ raised'[c] = "none" ) =>
                \/ pc[c] = "awaitStore"
                \/ /\ kind'[c] = "updateRow"
                   /\ Entries(args'[c].values) = <<>>
                   /\ db' = db]_vars

C3_Witness ==
    \E c \in Calls :
        /\ kind[c] = "insertRow"
        /\ pc[c] = "done"
        /\ raised[c] = "none"
        /\ stored.buffer = buf[c]
        /\ stored.buffer = Export(db)
        /\ size = Len(buf[c])
        /\ size # Len(Export(InitialDb))

\* In this step the put request of call c failed.
StoreFailed(c) ==
    /\ pc[c] = "awaitStore"
    /\ pc'[c] = "done"
    /\ Len(db'.log) > Len(db.log)

\* C4: when the write to the persistent store fails after COMMIT, the call
\* rejects, the in-memory database keeps the committed change (the ROLLBACK of
\* the error path undoes nothing), and the persistent copy and info.size stay
\* as they were.
C4_StoreFailureKeepsCommit ==
    [][\A c \in Calls :
          StoreFailed(c) =>
             /\ raised'[c] = "PersistenceError"
             /\ db'.rows = db.rows
             /\ db'.log = Append(db.log, Entry(c, "ROLLBACK", FALSE, <<>>))
             /\ stored' = stored
             /\ size' = size]_vars

C4_Witness ==
    \E c \in Calls :
        /\ kind[c] = "deleteRow"
        /\ raised[c] = "PersistenceError"
        /\ db.rows # InitialRows
        /\ stored = StoredInfo(Export(InitialDb))
        /\ size = Len(Export(InitialDb))

C14_UpdateWithoutColumnsIsNoOp ==
    [][\A c \in Calls :
          ( /\ pc[c] = "idle" /\ pc'[c] # "idle"
            /\ kind'[c] = "updateRow"
            /\ \A i \in 1..Len(args'[c].values) :
                  args'[c].values[i][1] = INTERNAL_ROWID_COLUMN )
          => /\ pc'[c] = "done"
             /\ raised'[c] = "none"
             /\ db' = db
             /\ storeQueue' = storeQueue
             /\ stored' = stored
             /\ size' = size]_vars

\* Both kinds of value map have been passed, one of them with an identifier
\* that names no row, and neither call left a trace in the engine's log.
C14_Witness ==
    \E c1, c2 \in Calls :
        /\ pc[c1] = "done" /\ kind[c1] = "updateRow" /\ args[c1].values = <<>>
        /\ pc[c2] = "done" /\ kind[c2] = "updateRow"
        /\ args[c2].values = << <<INTERNAL_ROWID_COLUMN, "1">> >>
        /\ args[c2].identifier = NullIdentifier
        /\ raised[c1] = "none" /\ raised[c2] = "none"
        /\ db = InitialDb
        /\ stored = StoredInfo(Export(InitialDb))

----------------------------------------------------------------------------
(* The result limiter: configuration setters and executeQuery (SpecQuery) *)

\* Rows beyond a limit that the model's statements produce.
MaxOver == 1

\* Math.max(100, maxRows)
MinQueryResultRows == 100

\* setMaxQueryResultRows(500) of the uploader's large-file mode
LargeFileMaxRows == 500

\* Number.MAX_SAFE_INTEGER, cut to the widest integer TLC computes with; it only
\* has to exceed every row count.
MAX_SAFE_INTEGER == 2147483647

Min2(a, b) == IF a <= b THEN a ELSE b

Max2(a, b) == IF a >= b THEN a ELSE b

ClampUnclampedMutant(maxRows) == maxRows

\* Math.max(100, maxRows)
Clamp(maxRows) == Max2(MinQueryResultRows, maxRows)

setMaxQueryResultRows(maxRows) ==
    /\ maxQueryResultRows' = Clamp(maxRows)
    /\ UNCHANGED <<useMemoryOptimizations, result, mutVars, browseVars, storeVars, filterVars>>

setMemoryOptimizations(enabled) ==
    /\ useMemoryOptimizations' = enabled
    /\ UNCHANGED <<maxQueryResultRows, result, mutVars, browseVars, storeVars, filterVars>>

setAllowLargeFiles(allow) ==
    /\ allowLargeFiles' = allow
    /\ UNCHANGED <<initialized, databases, currentDatabaseId, lastSelectedDatabase, persisted,
                   requests, nextDatabaseId, session, loaded, removed, earlier, restored,
                   handleVars, mutVars, cfgVars, result, browseVars, filterVars>>

\* rows.push(Object.values(row)) of the row the statement stands on
Push(rows, pos) == IF RowCount(rows) = 0 THEN [first |-> pos, last |-> pos]
                   ELSE [rows EXCEPT !.last = pos]

StepOffByOneMutant(s, produced, maxRows) ==
    IF s.halted THEN s
    ELSE IF s.pos < produced
    THEN IF s.rowCount <= maxRows
         THEN [s EXCEPT !.pos = @ + 1, !.rows = Push(@, s.pos + 1), !.rowCount = @ + 1]
         ELSE [s EXCEPT !.pos = @ + 1, !.halted = TRUE]
    ELSE [s EXCEPT !.halted = TRUE]

\* One evaluation of the loop header and body of
\*   while (stmt.step() && rowCount < maxRows) { rows.push(...); rowCount++; }
\* stmt.step() is evaluated first: it moves the statement to row pos + 1 (when
\* there is one) also in the iteration in which rowCount < maxRows fails.
Step(s, produced, maxRows) ==
    IF s.halted THEN s
    ELSE IF s.pos < produced
    THEN IF s.rowCount < maxRows
         THEN [s EXCEPT !.pos = @ + 1, !.rows = Push(@, s.pos + 1), !.rowCount = @ + 1]
         ELSE [s EXCEPT !.pos = @ + 1, !.halted = TRUE]
    ELSE [s EXCEPT !.halted = TRUE]

\* k iterations of the loop from s (a loop that has exited stays exited); the
\* iterations are split in halves to keep the evaluation shallow.
RECURSIVE Iterate(_, _, _, _)
Iterate(k, s, produced, maxRows) ==
    IF k = 0 THEN s
    ELSE IF k = 1 THEN Step(s, produced, maxRows)
    ELSE LET half == Iterate(k \div 2, s, produced, maxRows)
         IN IF half.halted THEN half
            ELSE Iterate(k - (k \div 2), half, produced, maxRows)

\* The while loop run to its exit: it exits within produced iterations.
StepLoop(produced, s, maxRows) == Iterate(produced, s, produced, maxRows)

\* The QueryResult executeQuery returns once its loop has ended in state `loop`.
QueryResultOf(loop, produced, optimized, maxQ) ==
    [produced |-> produced, optimized |-> optimized, maxRows |-> maxQ,
     rows |-> loop.rows,
     rowCount |-> RowCount(loop.rows),
     totalCount |-> IF loop.rowCount >= (IF optimized THEN maxQ ELSE MAX_SAFE_INTEGER)
                    THEN -1 ELSE RowCount(loop.rows)]

\* executeQuery(query) for a statement that produces `produced` rows.
ExecuteQueryResult(produced, optimized, maxQ) ==
    LET maxRows == IF optimized THEN maxQ ELSE MAX_SAFE_INTEGER
        loop == IF produced >= 1
                THEN StepLoop(produced,
                              [pos |-> 1, rows |-> Push(NoRows, 1), rowCount |-> 1,
                               halted |-> FALSE],
                              maxRows)
                ELSE [pos |-> 0, rows |-> NoRows, rowCount |-> 0, halted |-> TRUE]
    IN IF loop.halted
       THEN QueryResultOf(loop, produced, optimized, maxQ)
       ELSE QueryResultOf(Step(loop, produced, maxRows), produced, optimized, maxQ)

\* SqlQueryInterface.executeQuery: setResult(await clientDatabaseManager.executeQuery(query))
runQuery(produced) ==
    /\ result' = ExecuteQueryResult(produced, useMemoryOptimizations, maxQueryResultRows)
    /\ UNCHANGED <<cfgVars, mutVars, browseVars, storeVars, filterVars>>

MaxRowsArguments == {0, LargeFileMaxRows, DefaultMaxQueryResultRows,
                     DefaultMaxQueryResultRows + MaxOver}

Limits == {MinQueryResultRows, LargeFileMaxRows, DefaultMaxQueryResultRows,
           DefaultMaxQueryResultRows + MaxOver}

QuerySizes == {0, 1} \cup {m + d : m \in Limits, d \in (-1)..(MaxOver + 1)}

InitQuery ==
    /\ ConfigInit /\ QueryInit /\ BrowseInit(0) /\ StoreInit /\ FilterInit
    /\ db = InitialDb
    /\ pc = [c \in Calls |-> "idle"]
    /\ kind = [c \in Calls |-> "none"]
    /\ args = [c \in Calls |-> NoArgs]
    /\ raised = [c \in Calls |-> "none"]
    /\ buf = [c \in Calls |-> <<>>]
    /\ storeQueue = <<>>
    /\ stored = StoredInfo(Export(InitialDb))
    /\ size = Len(Export(InitialDb))
    /\ returned = [c \in Calls |-> Nothing]

NextQuery ==
    \/ \E maxRows \in MaxRowsArguments : setMaxQueryResultRows(maxRows)
    \/ \E enabled \in BOOLEAN : setMemoryOptimizations(enabled)
    \/ \E produced \in QuerySizes : runQuery(produced)

SpecQuery == InitQuery /\ [][NextQuery]_vars

\* C7: with memory optimizations enabled executeQuery never returns more than
\* maxRows rows, and for a statement producing more than maxRows rows it returns
\* exactly the first maxRows rows with totalCount = -1.
C7_ExecuteQueryStopsAtMaxRows ==
    result.optimized =>
        /\ RowCount(result.rows) <= result.maxRows
        /\ result.rowCount = RowCount(result.rows)
        /\ result.produced > result.maxRows =>
              /\ result.rows = [first |-> 1, last |-> result.maxRows]
              /\ result.totalCount = -1

C7_Witness ==
    /\ result.optimized
    /\ result.maxRows = MinQueryResultRows
    /\ result.produced > MinQueryResultRows + 1
    /\ result.rows = [first |-> 1, last |-> MinQueryResultRows]
    /\ result.totalCount = -1

\* C8 (as claimed): executeQuery reports totalCount = -1 exactly when the
\* maxRows ceiling dropped rows; when the statement produces maxRows rows or
\* fewer, or memory optimizations are disabled, totalCount is the number of
\* rows produced.
C8_SentinelIffRowsDropped ==
    LET dropped == result.optimized /\ result.produced > result.maxRows
    IN /\ (result.totalCount = -1) <=> dropped
       /\ ~dropped => result.totalCount = result.produced

----------------------------------------------------------------------------
(* The configuration setters on their own (SpecConfig) *)

\* Distance of the setMaxQueryResultRows arguments from the minimum.
MaxSpread == 30

ConfigArguments ==
    {-MAX_SAFE_INTEGER, -1, 0, MAX_SAFE_INTEGER}
        \cup ((MinQueryResultRows - MaxSpread)..(MinQueryResultRows + MaxSpread))

NextConfig ==
    \/ \E maxRows \in ConfigArguments : setMaxQueryResultRows(maxRows)
    \/ \E enabled \in BOOLEAN : setMemoryOptimizations(enabled)
    \/ \E allow \in BOOLEAN : setAllowLargeFiles(allow)

SpecConfig == InitQuery /\ [][NextConfig]_vars

\* C11: after any sequence of setMaxQueryResultRows, setMemoryOptimizations and
\* setAllowLargeFiles calls with integer arguments, maxQueryResultRows is at
\* least 100.
C11_MaxRowsAtLeast100 == maxQueryResultRows >= 100

\* The minimum itself is held, after calls of all three setters: the initial
\* configuration is 1000 rows, optimizations on, large files off.
C11_Witness ==
    /\ maxQueryResultRows = 100
    /\ ~useMemoryOptimizations
    /\ allowLargeFiles

----------------------------------------------------------------------------
(* Table browsing: getTableData and the viewer's fetchTableData (SpecBrowse) *)

\* Pages the model turns to.
MaxPage == 2

\* `limit <= 1000` of getTableData
CountSkipThreshold == 1000

\* The table's row i holds the search text in one of its columns iff i is even.
TableSizes == {0, 2 * (MinQueryResultRows + MaxOver)}

PageSizes == {DefaultItemsPerPage, CountSkipThreshold, CountSkipThreshold + MaxOver}

\* Arguments of setMaxQueryResultRows while browsing.
BrowseMaxRows == {0, DefaultMaxQueryResultRows + MaxOver}

SearchTerms == {<<>>, <<"x">>}

SortColumns == {"name"}

\* Number of rows of an n-row table that satisfy the WHERE clause built from search.
Matching(n, search) == IF search = <<>> THEN n ELSE n \div 2

\* Rows offset+1 .. offset+k of a statement's unlimited output.
Page(rows, offset) == IF RowCount(rows) = 0 THEN NoRows
                      ELSE [first |-> rows.first + offset, last |-> rows.last + offset]

\* Number of rows a statement ending in LIMIT limit OFFSET offset produces
\* when it produces n rows without them.
Limited(n, limit, offset) == Max2(0, Min2(limit, n - offset))

\* getTableData(tableName, limit, offset) on a table of n rows: the QueryResult
\* it returns and the LIMIT / OFFSET it binds.
GetTableData(n, limit, offset, optimized, maxQ) ==
    LET clamped == IF optimized THEN Min2(limit, maxQ) ELSE limit
        counted == ~optimized \/ clamped <= CountSkipThreshold
        totalRows == IF counted THEN n ELSE -1
        k == Limited(n, clamped, offset)
    IN [data |-> [rows |-> Page([first |-> 1, last |-> k], offset),
                  rowCount |-> totalRows, totalCount |-> totalRows,
                  limit |-> clamped, offset |-> offset],
        sqlLimit |-> clamped, sqlOffset |-> offset, countRan |-> counted]

\* The branch of fetchTableData taken with a search text or a sort state: the
\* query ends in `LIMIT ${itemsPerPage} OFFSET ${offset}` and goes through
\* executeQuery, as does the count query, whose single row holds the count.
ComposedFetch(n, pageSize, offset, optimized, maxQ) ==
    LET r == ExecuteQueryResult(Limited(n, pageSize, offset), optimized, maxQ)
        countResult == ExecuteQueryResult(1, optimized, maxQ)
        totalCount == IF RowCount(countResult.rows) >= 1 THEN n ELSE 0
    IN [data |-> [rows |-> Page(r.rows, offset), rowCount |-> r.rowCount,
                  totalCount |-> totalCount, limit |-> pageSize, offset |-> offset],
        sqlLimit |-> pageSize, sqlOffset |-> offset, countRan |-> TRUE]

\* if (search || (sortColumn && sortDirection) || filters.length > 0); the model
\* browses without column filters.
Composed(search, column, direction) ==
    search # <<>> \/ (column # Nothing /\ direction # Nothing)

\* fetchTableData(table, page, search) as the handler's render closed over it,
\* for a table of n rows: itemsPerPage, sortColumn and sortDirection are the
\* current values of the state variables, whatever the handler passes to their
\* setters.
fetchTableData(n, page, search) ==
    LET offset == (page - 1) * itemsPerPage
        composed == Composed(search, sortColumn, sortDirection)
        matching == Matching(n, search)
        f == IF composed
             THEN ComposedFetch(matching, itemsPerPage, offset,
                                useMemoryOptimizations, maxQueryResultRows)
             ELSE GetTableData(n, itemsPerPage, offset,
                               useMemoryOptimizations, maxQueryResultRows)
    IN /\ data' = f.data
       /\ currentPage' = page
       /\ request' = [path |-> IF composed THEN "composed" ELSE "plain",
                      page |-> page, pageSize |-> itemsPerPage,
                      optimized |-> useMemoryOptimizations,
                      maxRows |-> maxQueryResultRows,
                      matching |-> matching,
                      sqlLimit |-> f.sqlLimit, sqlOffset |-> f.sqlOffset,
                      countRan |-> f.countRan]

\* useEffect on [tableName]: a table is opened in the viewer.
selectTable(n) ==
    /\ fetchTableData(n, 1, <<>>)
    /\ tableSize' = n
    /\ searchTerm' = <<>>
    /\ sortColumn' = Nothing
    /\ sortDirection' = Nothing
    /\ UNCHANGED <<itemsPerPage, cfgVars, result, mutVars,
                   storeVars, filterVars>>

\* onChange of the search box
setSearchTerm(value) ==
    /\ searchTerm' = value
    /\ UNCHANGED <<tableSize, itemsPerPage, currentPage, sortColumn, sortDirection, data,
                   request, cfgVars, result, mutVars, storeVars, filterVars>>

handleSearch ==
    /\ fetchTableData(tableSize, 1, searchTerm)
    /\ UNCHANGED <<tableSize, itemsPerPage, searchTerm, sortColumn, sortDirection,
                   cfgVars, result, mutVars,
                   storeVars, filterVars>>

handlePreviousPage ==
    /\ currentPage > 1
    /\ fetchTableData(tableSize, currentPage - 1, searchTerm)
    /\ UNCHANGED <<tableSize, itemsPerPage, searchTerm, sortColumn, sortDirection,
                   cfgVars, result, mutVars,
                   storeVars, filterVars>>

handleNextPage ==
    /\ currentPage < MaxPage
    /\ data.totalCount # 0
    /\ currentPage * itemsPerPage < data.totalCount
    /\ fetchTableData(tableSize, currentPage + 1, searchTerm)
    /\ UNCHANGED <<tableSize, itemsPerPage, searchTerm, sortColumn, sortDirection,
                   cfgVars, result, mutVars,
                   storeVars, filterVars>>

handleItemsPerPageChange(numValue) ==
    /\ numValue > 0
    /\ itemsPerPage' = numValue
    /\ fetchTableData(tableSize, 1, searchTerm)
    /\ UNCHANGED <<tableSize, searchTerm, sortColumn, sortDirection, cfgVars, result, mutVars,
                   storeVars, filterVars>>

\* asc -> desc -> none on the sorted column, asc on another column
NextSort(column, direction, columnName) ==
    IF column = Some(columnName) /\ direction = Some("asc")
    THEN [column |-> Some(columnName), direction |-> Some("desc")]
    ELSE IF column = Some(columnName) /\ direction = Some("desc")
    THEN [column |-> Nothing, direction |-> Nothing]
    ELSE [column |-> Some(columnName), direction |-> Some("asc")]

handleColumnSort(columnName) ==
    /\ sortColumn' = NextSort(sortColumn, sortDirection, columnName).column
    /\ sortDirection' = NextSort(sortColumn, sortDirection, columnName).direction
    /\ fetchTableData(tableSize, currentPage, searchTerm)
    /\ UNCHANGED <<tableSize, itemsPerPage, searchTerm, cfgVars, result, mutVars,
                   storeVars, filterVars>>

InitBrowse ==
    /\ ConfigInit /\ QueryInit /\ StoreInit /\ FilterInit
    /\ \E n \in TableSizes : BrowseInit(n)
    /\ db = InitialDb
    /\ pc = [c \in Calls |-> "idle"]
    /\ kind = [c \in Calls |-> "none"]
    /\ args = [c \in Calls |-> NoArgs]
    /\ raised = [c \in Calls |-> "none"]
    /\ buf = [c \in Calls |-> <<>>]
    /\ storeQueue = <<>>
    /\ stored = StoredInfo(Export(InitialDb))
    /\ size = Len(Export(InitialDb))
    /\ returned = [c \in Calls |-> Nothing]

NextBrowse ==
    \/ \E maxRows \in BrowseMaxRows : setMaxQueryResultRows(maxRows)
    \/ \E enabled \in BOOLEAN : setMemoryOptimizations(enabled)
    \/ \E n \in TableSizes : selectTable(n)
    \/ \E value \in SearchTerms : setSearchTerm(value)
    \/ handleSearch
    \/ handlePreviousPage
    \/ handleNextPage
    \/ \E numValue \in PageSizes : handleItemsPerPageChange(numValue)
    \/ \E columnName \in SortColumns : handleColumnSort(columnName)

SpecBrowse == InitBrowse /\ [][NextBrowse]_vars

\* C9 (as claimed): with memory optimizations enabled every table-browse
\* request, plain or composed with search or sort, applies
\* LIMIT min(pageSize, maxRows) OFFSET (page-1)*pageSize and reports that
\* clamped value as the result's limit.
C9_BrowseLimitIsClamped ==
    (request.path # "none" /\ request.optimized) =>
        /\ request.sqlLimit = Min2(request.pageSize, request.maxRows)
        /\ request.sqlOffset = (request.page - 1) * request.pageSize
        /\ data.limit = Min2(request.pageSize, request.maxRows)

\* C10 (as claimed): with memory optimizations enabled a table-browse request
\* whose page size exceeds 1000 runs no COUNT(*) and returns totalCount = -1,
\* whatever maxRows is; with a page size of at most 1000, or with optimizations
\* disabled, COUNT(*) runs and totalCount is the exact count.
C10_CountSkippedAbovePageSize1000 ==
    request.path # "none" =>
        IF request.optimized /\ request.pageSize > CountSkipThreshold
        THEN ~request.countRan /\ data.totalCount = -1
        ELSE request.countRan /\ data.totalCount = request.matching

----------------------------------------------------------------------------
(* Loading, removing and restoring databases across sessions (SpecStore) *)

\* Files loaded over all sessions.
MaxDatabases == 2

\* Page loads.
MaxSessions == 2

\* IndexedDB requests pending at a time.
MaxRequests == 2

DatabaseIds == 1..MaxDatabases

MAX_DB_SIZE_BYTES == 200 * 1024 * 1024

FileSizes == {MAX_DB_SIZE_BYTES, MAX_DB_SIZE_BYTES + 1}

Request(op, id, origin) == [op |-> op, id |-> id, origin |-> origin]

\* The handle the next `new Database(...)` for id returns.
NewHandle(handles, id) == <<id, Cardinality({h \in handles : h[1] = id}) + 1>>

\* databases.set(id, { db, info }) and databases.delete(id) on the Map's handles.
MapSet(map, id, handle) ==
    [x \in DOMAIN map \cup {id} |-> IF x = id THEN handle ELSE map[x]]

MapDelete(map, id) == [x \in DOMAIN map \ {id} |-> map[x]]

\* The files handlers route to loadLargeDatabase: `file.size > 200 * 1024 * 1024`.
LargeFileSizes == {fileSize \in FileSizes : fileSize > 200 * 1024 * 1024}

\* The loop of restoreDatabasesFromStorage over the stored records `ids`: a
\* record whose buffer opens is set in the Map under its id (replacing an entry
\* already there); one that does not is deleted from the store, and a failing
\* delete leaves the loop through the outer catch.
RECURSIVE Restore(_, _, _, _)
Restore(ids, broken, deleteOk, acc) ==
    IF ids = <<>> THEN acc
    ELSE IF Head(ids) \notin broken
    THEN Restore(Tail(ids), broken, deleteOk,
                 [acc EXCEPT !.databases = @ \cup {Head(ids)},
                             !.restored = @ \cup {Head(ids)},
                             !.dbOf = MapSet(@, Head(ids), NewHandle(acc.opened, Head(ids))),
                             !.opened = @ \cup {NewHandle(acc.opened, Head(ids))}])
    ELSE IF deleteOk
    THEN Restore(Tail(ids), broken, deleteOk,
                 [acc EXCEPT !.persisted = @ \ {Head(ids)}])
    ELSE acc

\* initialize() up to its first await: `if (this.initialized) return;`, then
\* the call awaits initSqlJs, the store's initialize and getAllDatabases.
initialize(caller) ==
    /\ initPc[caller] = "idle"
    /\ initPc' = [initPc EXCEPT ![caller] = IF initialized THEN "done" ELSE "restoring"]
    /\ UNCHANGED <<initialized, allowLargeFiles, databases, currentDatabaseId,
                   lastSelectedDatabase, persisted, requests, nextDatabaseId, session,
                   loaded, removed, earlier, restored, files, dbOf, opened, closed,
                   currentDatabase, mutVars, cfgVars, result, browseVars, filterVars>>

\* initialize() resumed with the stored records: the loop of
\* restoreDatabasesFromStorage, restoreLastSelectedDatabase, initialized = true.
\* readOk: getAllDatabases resolves; broken: the stored records whose buffer
\* the engine does not open.
initializeRestore(caller, readOk, broken, deleteOk) ==
    /\ initPc[caller] = "restoring"
    /\ LET start == [databases |-> databases, persisted |-> persisted, restored |-> restored,
                     dbOf |-> dbOf, opened |-> opened]
       IN \E r \in {IF readOk THEN Restore(Ascending(persisted), broken, deleteOk, start)
                    ELSE start} :
          /\ databases' = r.databases
          /\ persisted' = r.persisted
          /\ restored' = r.restored
          /\ dbOf' = r.dbOf
          /\ opened' = r.opened
          /\ IF lastSelectedDatabase # Nothing /\ Head(lastSelectedDatabase) \in r.databases
             THEN /\ currentDatabaseId' = lastSelectedDatabase
                  /\ currentDatabase' = Some(r.dbOf[Head(lastSelectedDatabase)])
             ELSE UNCHANGED <<currentDatabaseId, currentDatabase>>
    /\ initialized' = TRUE
    /\ initPc' = [initPc EXCEPT ![caller] = "done"]
    /\ UNCHANGED <<allowLargeFiles, lastSelectedDatabase, requests, nextDatabaseId, session,
                   loaded, removed, earlier, files, closed,
                   mutVars, cfgVars, result, browseVars, filterVars>>

\* loadDatabase(file) up to `await indexedDBStorage.storeDatabase(storedInfo)`:
\* the size check, new Database(buffer), databases.set, the put request.
loadDatabase(fileSize, opens) ==
    /\ initialized
    /\ nextDatabaseId <= MaxDatabases
    /\ Len(requests) < MaxRequests
    /\ IF (~allowLargeFiles /\ fileSize > MAX_DB_SIZE_BYTES) \/ ~opens
       THEN UNCHANGED <<databases, requests, nextDatabaseId, files, dbOf, opened>>
       ELSE /\ databases' = databases \cup {nextDatabaseId}
            /\ requests' = Append(requests, Request("put", nextDatabaseId, "loadDatabase"))
            /\ nextDatabaseId' = nextDatabaseId + 1
            /\ files' = MapSet(files, nextDatabaseId,
                               [size |-> fileSize, method |-> "loadDatabase"])
            /\ dbOf' = MapSet(dbOf, nextDatabaseId, NewHandle(opened, nextDatabaseId))
            /\ opened' = opened \cup {NewHandle(opened, nextDatabaseId)}
    /\ UNCHANGED <<initialized, allowLargeFiles, currentDatabaseId, lastSelectedDatabase,
                   persisted, session, loaded, removed, earlier, restored,
                   closed, currentDatabase, initPc,
                   mutVars, cfgVars, result, browseVars, filterVars>>

\* loadLargeDatabase(file): new Database(buffer), databases.set,
\* setCurrentDatabase; no size check and no request to the store.
loadLargeDatabase(fileSize, opens) ==
    /\ initialized
    /\ nextDatabaseId <= MaxDatabases
    /\ IF ~opens
       THEN UNCHANGED <<databases, nextDatabaseId, currentDatabaseId, lastSelectedDatabase,
                        files, dbOf, opened, currentDatabase>>
       ELSE /\ databases' = databases \cup {nextDatabaseId}
            /\ nextDatabaseId' = nextDatabaseId + 1
            /\ currentDatabaseId' = Some(nextDatabaseId)
            /\ lastSelectedDatabase' = Some(nextDatabaseId)
            /\ files' = MapSet(files, nextDatabaseId,
                               [size |-> fileSize, method |-> "loadLargeDatabase"])
            /\ dbOf' = MapSet(dbOf, nextDatabaseId, NewHandle(opened, nextDatabaseId))
            /\ opened' = opened \cup {NewHandle(opened, nextDatabaseId)}
            /\ currentDatabase' = Some(NewHandle(opened, nextDatabaseId))
    /\ UNCHANGED <<initialized, allowLargeFiles, persisted, requests, session, loaded,
                   removed, earlier, restored, closed, initPc,
                   mutVars, cfgVars, result, browseVars, filterVars>>

\* setCurrentDatabase(databaseId) called by the page when the user picks a
\* database; it throws for an id that is not loaded.
setCurrentDatabase(id) ==
    /\ initialized
    /\ IF id \in databases
       THEN /\ currentDatabaseId' = Some(id)
            /\ lastSelectedDatabase' = Some(id)
            /\ currentDatabase' = Some(dbOf[id])
       ELSE UNCHANGED <<currentDatabaseId, lastSelectedDatabase, currentDatabase>>
    /\ UNCHANGED <<initialized, allowLargeFiles, databases, persisted, requests,
                   nextDatabaseId, session, loaded, removed, earlier, restored,
                   files, dbOf, opened, closed, initPc,
                   mutVars, cfgVars, result, browseVars, filterVars>>

\* persistDatabaseChanges(info, db) of an insertRow, updateRow or deleteRow that
\* has committed on the current database, up to its await: the put request.
persistDatabaseChanges(id) ==
    /\ initialized
    /\ currentDatabaseId = Some(id)
    /\ id \in databases
    /\ Len(requests) < MaxRequests
    /\ requests' = Append(requests, Request("put", id, "persistDatabaseChanges"))
    /\ UNCHANGED <<initialized, allowLargeFiles, databases, currentDatabaseId,
                   lastSelectedDatabase, persisted, nextDatabaseId, session, loaded, removed,
                   earlier, restored, handleVars,
                   mutVars, cfgVars, result, browseVars, filterVars>>

\* removeDatabase(databaseId) up to `await indexedDBStorage.deleteDatabase`:
\* entry.db.close(), databases.delete, the delete request.
removeDatabase(id) ==
    /\ initialized
    /\ Len(requests) < MaxRequests
    /\ IF id \notin databases
       THEN UNCHANGED <<databases, requests, removed, dbOf, closed>>
       ELSE /\ databases' = databases \ {id}
            /\ requests' = Append(requests, Request("delete", id, "removeDatabase"))
            /\ removed' = removed \cup {id}
            /\ closed' = closed \cup {dbOf[id]}
            /\ dbOf' = MapDelete(dbOf, id)
    /\ UNCHANGED <<initialized, allowLargeFiles, currentDatabaseId, lastSelectedDatabase,
                   persisted, nextDatabaseId, session, loaded, earlier, restored,
                   files, opened, currentDatabase, initPc,
                   mutVars, cfgVars, result, browseVars, filterVars>>

\* clearAllStoredDatabases() up to `await indexedDBStorage.clearAllDatabases()`:
\* every entry's db is closed, the Map and the selection are cleared.
clearAllStoredDatabases ==
    /\ initialized
    /\ Len(requests) < MaxRequests
    /\ databases' = {}
    /\ currentDatabaseId' = Nothing
    /\ requests' = Append(requests, Request("clear", 0, "clearAllStoredDatabases"))
    /\ removed' = 1..(nextDatabaseId - 1)
    /\ closed' = closed \cup {dbOf[id] : id \in databases}
    /\ dbOf' = NoEntries
    /\ currentDatabase' = Nothing
    /\ UNCHANGED <<initialized, allowLargeFiles, lastSelectedDatabase, persisted,
                   nextDatabaseId, session, loaded, earlier, restored,
                   files, opened, initPc,
                   mutVars, cfgVars, result, browseVars, filterVars>>

\* The oldest pending request completes and the call awaiting it resumes:
\*   loadDatabase            setCurrentDatabase(databaseId), or the catch block
\*   persistDatabaseChanges  info.size = buffer.length, or the mutation's catch
\*   removeDatabase          the rejection is caught and logged; the selection is
\*                           cleared when it is the removed database
\*   clearAllStoredDatabases saveLastSelectedDatabase(null), or the rejection
requestDone(ok) ==
    /\ requests # <<>>
    /\ requests' = Tail(requests)
    /\ LET r == Head(requests) IN
       /\ persisted' = IF ~ok THEN persisted
                       ELSE IF r.op = "put" THEN persisted \cup {r.id}
                       ELSE IF r.op = "delete" THEN persisted \ {r.id}
                       ELSE {}
       /\ IF r.origin = "loadDatabase" /\ ok /\ r.id \in databases
          THEN /\ currentDatabaseId' = Some(r.id)
               /\ lastSelectedDatabase' = Some(r.id)
               /\ currentDatabase' = Some(dbOf[r.id])
               /\ loaded' = loaded \cup {r.id}
          ELSE IF r.origin = "removeDatabase" /\ currentDatabaseId = Some(r.id)
          THEN /\ currentDatabaseId' = Nothing
               /\ lastSelectedDatabase' = Nothing
               /\ currentDatabase' = Nothing
               /\ UNCHANGED loaded
          ELSE IF r.origin = "clearAllStoredDatabases" /\ ok
          THEN /\ lastSelectedDatabase' = Nothing
               /\ UNCHANGED <<currentDatabaseId, currentDatabase, loaded>>
          ELSE UNCHANGED <<currentDatabaseId, lastSelectedDatabase, currentDatabase, loaded>>
    /\ UNCHANGED <<initialized, allowLargeFiles, databases, nextDatabaseId, session,
                   removed, earlier, restored, files, dbOf, opened, closed, initPc,
                   mutVars, cfgVars, result, browseVars, filterVars>>

\* The page is loaded again once the store is idle: the manager is constructed
\* anew and the engine's handles are gone with the page; the object store and
\* localStorage stay.
reload ==
    /\ requests = <<>>
    /\ session < MaxSessions
    /\ session' = session + 1
    /\ initialized' = FALSE
    /\ allowLargeFiles' = FALSE
    /\ databases' = {}
    /\ currentDatabaseId' = Nothing
    /\ earlier' = [loaded |-> loaded, removed |-> removed]
    /\ restored' = {}
    /\ dbOf' = NoEntries
    /\ opened' = {}
    /\ closed' = {}
    /\ currentDatabase' = Nothing
    /\ initPc' = [caller \in InitCallers |-> "idle"]
    /\ UNCHANGED <<lastSelectedDatabase, persisted, requests, nextDatabaseId, loaded,
                   removed, files, mutVars, cfgVars, result, browseVars, filterVars>>

InitStore ==
    /\ StoreInit /\ FilterInit /\ ConfigInit /\ QueryInit /\ BrowseInit(0)
    /\ db = InitialDb
    /\ pc = [c \in Calls |-> "idle"]
    /\ kind = [c \in Calls |-> "none"]
    /\ args = [c \in Calls |-> NoArgs]
    /\ raised = [c \in Calls |-> "none"]
    /\ buf = [c \in Calls |-> <<>>]
    /\ storeQueue = <<>>
    /\ stored = StoredInfo(Export(InitialDb))
    /\ size = Len(Export(InitialDb))
    /\ returned = [c \in Calls |-> Nothing]

NextStore ==
    \/ \E allow \in BOOLEAN : setAllowLargeFiles(allow)
    \/ \E caller \in {"Home"} : initialize(caller)
    \/ \E caller \in {"Home"}, readOk \in BOOLEAN, broken \in SUBSET persisted,
          deleteOk \in BOOLEAN : initializeRestore(caller, readOk, broken, deleteOk)
    \/ \E fileSize \in FileSizes, opens \in BOOLEAN : loadDatabase(fileSize, opens)
    \/ \E fileSize \in LargeFileSizes, opens \in BOOLEAN : loadLargeDatabase(fileSize, opens)
    \/ \E id \in DatabaseIds : setCurrentDatabase(id)
    \/ \E id \in DatabaseIds : persistDatabaseChanges(id)
    \/ \E id \in DatabaseIds : removeDatabase(id)
    \/ clearAllStoredDatabases
    \/ \E ok \in BOOLEAN : requestDone(ok)
    \/ reload

SpecStore == InitStore /\ [][NextStore]_vars

\* C6 (as claimed): the databases initialize restores in a new session are
\* exactly those loaded with loadDatabase in earlier sessions and not removed
\* since with removeDatabase or clearAllStoredDatabases; a removed database
\* never reappears after a restart.
C6_RestoredAreLoadedNotRemoved ==
    (session > 1 /\ initialized) =>
        /\ restored = earlier.loaded \ earlier.removed
        /\ restored \cap earlier.removed = {}


----------------------------------------------------------------------------
(* SQL text: strings, identifiers, literals and statements *)

\* A JavaScript string is the sequence of its pieces, every character that SQL
\* or a regular expression of the program treats specially being a piece of
\* its own.

\* s.replace(/ch/g, with)
RECURSIVE ReplaceAll(_, _, _)
ReplaceAll(s, ch, with) ==
    IF s = <<>> THEN <<>>
    ELSE (IF Head(s) = ch THEN with ELSE <<Head(s)>>) \o ReplaceAll(Tail(s), ch, with)

\* `"${identifier.replace(/"/g, '""')}"`
quoteIdentifier(identifier) ==
    <<"\"">> \o ReplaceAll(identifier, "\"", <<"\"", "\"">>) \o <<"\"">>

DigitChars == <<"0", "1", "2", "3", "4", "5", "6", "7", "8", "9">>

RECURSIVE Digits(_)
Digits(n) == IF n < 10 THEN <<DigitChars[n + 1]>>
             ELSE Digits(n \div 10) \o <<DigitChars[(n % 10) + 1]>>

\* `${n}` for an integer n
NumberToString(n) == IF n < 0 THEN <<"-">> \o Digits(-n) ELSE Digits(n)

\* Values of type string | number | null.
JsNull == [t |-> "null", n |-> 0, s |-> <<>>]

JsNumber(n) == [t |-> "number", n |-> n, s |-> <<>>]

JsString(s) == [t |-> "string", n |-> 0, s |-> s]

NaN == [t |-> "nan", n |-> 0, s |-> <<>>]

isNaN(v) == v.t = "nan"

\* typeof v === 'string' ? `'${String(v).replace(/'/g, "''")}'` : v, placed in a template
SqlLiteral(v) ==
    IF v.t = "string" THEN <<"'">> \o ReplaceAll(v.s, "'", <<"'", "'">>) \o <<"'">>
    ELSE IF v.t = "number" THEN NumberToString(v.n)
    ELSE IF isNaN(v) THEN <<"NaN">>
    ELSE <<"null">>

\* A statement's text is a sequence of fragments: the fixed text of the
\* template ("sql"), a table or column name ("identifier", with the name it was
\* made from), a value given by the user ("value"), a `?` ("placeholder") or a
\* LIMIT / OFFSET number ("paging").
Fragment(role, chars, name) == [kind |-> role, chars |-> chars, name |-> name]

Sql(text) == Fragment("sql", <<text>>, <<>>)

Quoted(name) == Fragment("identifier", quoteIdentifier(name), name)

Unquoted(name) == Fragment("identifier", name, name)

Value(chars) == Fragment("value", chars, <<>>)

Placeholder == Fragment("placeholder", <<"?">>, <<>>)

Paging(n) == Fragment("paging", NumberToString(n), <<>>)

Statement(text, params) == [text |-> text, params |-> params]

\* parts.join(separator) for sequences of fragment sequences
RECURSIVE Join(_, _)
Join(parts, separator) ==
    IF parts = <<>> THEN <<>>
    ELSE IF Len(parts) = 1 THEN Head(parts)
    ELSE Head(parts) \o <<separator>> \o Join(Tail(parts), separator)

----------------------------------------------------------------------------
(* The engine's reading of SQL text *)

\* The characters between the delimiters of a quoted identifier or string
\* literal, a doubled delimiter read as one; "error" for a text that is not
\* one delimited token.
RECURSIVE Undouble(_, _)
Undouble(s, delimiter) ==
    IF s = <<>> THEN <<>>
    ELSE IF Head(s) # delimiter THEN <<Head(s)>> \o Undouble(Tail(s), delimiter)
    ELSE IF Len(s) >= 2 /\ s[2] = delimiter
    THEN <<delimiter>> \o Undouble(Tail(Tail(s)), delimiter)
    ELSE <<"error">>

Inner(chars, delimiter) == Undouble(SubSeq(chars, 2, Len(chars) - 1), delimiter)

Delimited(chars, delimiter) ==
    /\ Len(chars) >= 2
    /\ Head(chars) = delimiter
    /\ chars[Len(chars)] = delimiter
    /\ LET inner == Inner(chars, delimiter)
       IN \A i \in 1..Len(inner) : inner[i] # "error"

DigitValue(ch) == (CHOOSE i \in 1..10 : DigitChars[i] = ch) - 1

RECURSIVE ParseDigits(_, _)
ParseDigits(chars, acc) ==
    IF chars = <<>> THEN acc
    ELSE ParseDigits(Tail(chars), 10 * acc + DigitValue(Head(chars)))

IsDigits(chars) ==
    /\ chars # <<>>
    /\ \A i \in 1..Len(chars) : \E d \in 1..10 : DigitChars[d] = chars[i]

\* The value of a literal of the text: 'string', integer or null; any other
\* token (NaN, undefined) is no literal, and the statement an error.
ParseLiteral(chars) ==
    IF Delimited(chars, "'") THEN JsString(Inner(chars, "'"))
    ELSE IF IsDigits(chars) THEN JsNumber(ParseDigits(chars, 0))
    ELSE IF Len(chars) >= 2 /\ Head(chars) = "-" /\ IsDigits(Tail(chars))
    THEN JsNumber(-ParseDigits(Tail(chars), 0))
    ELSE IF chars = <<"null">> THEN JsNull
    ELSE [t |-> "error", n |-> 0, s |-> chars]

\* Whether text holds pattern as a contiguous part.
Contains(text, pattern) ==
    \E i \in 0..(Len(text) - Len(pattern)) : SubSeq(text, i + 1, i + Len(pattern)) = pattern

\* CAST(value AS TEXT) of a non-null value
TextOf(v) == IF v.t = "number" THEN NumberToString(v.n) ELSE v.s

\* The column an identifier of the text names.
ColumnNamed(chars) == IF Delimited(chars, "\"") THEN Inner(chars, "\"") ELSE chars

\* A condition of a WHERE clause is a sequence of atoms joined by OR, in
\* parentheses or not; an atom is `column op operands`.
Atom(column, op, operands) == [column |-> column, op |-> op, operands |-> operands]

Condition(atoms, wrapped) == [atoms |-> atoms, wrapped |-> wrapped]

Not3(b) == IF b = "true" THEN "false" ELSE IF b = "false" THEN "true" ELSE b

Bool3(b) == IF b THEN "true" ELSE "false"

\* The engine prepares a statement once: every identifier of its WHERE clause
\* is read as a column name and every literal as a value.
RECURSIVE ParseAll(_)
ParseAll(operands) ==
    IF operands = <<>> THEN <<>>
    ELSE <<ParseLiteral(Head(operands).chars)>> \o ParseAll(Tail(operands))

Prepared(a) ==
    [name |-> ColumnNamed(a.column.chars), op |-> a.op, values |-> ParseAll(a.operands)]

RECURSIVE PreparedAtoms(_)
PreparedAtoms(atoms) ==
    IF atoms = <<>> THEN <<>> ELSE <<Prepared(Head(atoms))>> \o PreparedAtoms(Tail(atoms))

RECURSIVE Prepare(_)
Prepare(conditions) ==
    IF conditions = <<>> THEN <<>>
    ELSE <<PreparedAtoms(Head(conditions).atoms)>> \o Prepare(Tail(conditions))

\* The engine's three-valued reading of a prepared atom on a row: "true",
\* "false" or "null"; "error" for a column the table does not have or a token
\* that is no literal.
EvalPrepared(row, p) ==
    LET cell == row[p.name]
        \* a text sorts after every number
        over(n) == cell.t = "string" \/ cell.n > n
        under(n) == cell.t = "number" /\ cell.n < n
    IN IF p.name \notin DOMAIN row THEN "error"
       ELSE IF \E i \in 1..Len(p.values) : p.values[i].t = "error" THEN "error"
       ELSE IF p.op = "IS NULL" THEN Bool3(cell.t = "null")
       ELSE IF p.op = "IS NOT NULL" THEN Bool3(cell.t # "null")
       ELSE IF cell.t = "null" THEN "null"
       ELSE IF p.op = "IN" THEN Bool3(\E i \in 1..Len(p.values) : p.values[i] = cell)
       ELSE IF p.op = "=" THEN Bool3(p.values[1] = cell)
       ELSE IF p.op = "LIKE"
       THEN Bool3(Contains(TextOf(cell), SubSeq(p.values[1].s, 2, Len(p.values[1].s) - 1)))
       ELSE IF p.op = ">" THEN Bool3(over(p.values[1].n))
       ELSE IF p.op = ">=" THEN Bool3(~under(p.values[1].n))
       ELSE IF p.op = "<" THEN Bool3(under(p.values[1].n))
       ELSE IF p.op = "<=" THEN Bool3(~over(p.values[1].n))
       ELSE IF p.op = "BETWEEN" THEN Bool3(~under(p.values[1].n) /\ ~over(p.values[2].n))
       ELSE "error"

\* a1 OR a2 OR ... on a row
EvalOr(row, atoms) ==
    LET v == {EvalPrepared(row, atoms[i]) : i \in 1..Len(atoms)}
    IN IF "error" \in v THEN "error"
       ELSE IF "true" \in v THEN "true"
       ELSE IF "null" \in v THEN "null"
       ELSE "false"

\* c1 AND c2 AND ... on a row
EvalWhere(row, prepared) ==
    LET v == {EvalOr(row, prepared[i]) : i \in 1..Len(prepared)}
    IN IF "error" \in v THEN "error"
       ELSE IF "false" \in v THEN "false"
       ELSE IF "null" \in v THEN "null"
       ELSE "true"

\* The engine's answer to a statement with WHERE c1 AND c2 AND ... over the
\* rows: it fails, or selects the rows on which every condition is true; a
\* statement without WHERE selects every row.
Answer(rows, conditions) ==
    LET prepared == Prepare(conditions)
        verdicts == {<<r, EvalWhere(rows[r], prepared)>> : r \in DOMAIN rows}
    IN [failed |-> \E v \in verdicts : v[2] = "error",
        selected |-> {v[1] : v \in {w \in verdicts : w[2] = "true"}}]

Selected(rows, conditions) == Answer(rows, conditions).selected

\* The text of a condition.
RenderAtom(a) ==
    IF a.op \in {"IS NULL", "IS NOT NULL"} THEN <<a.column, Sql(a.op)>>
    ELSE IF a.op = "IN"
    THEN <<a.column, Sql("IN (")>>
            \o Join([i \in 1..Len(a.operands) |-> <<a.operands[i]>>], Sql(", "))
            \o <<Sql(")")>>
    ELSE IF a.op = "BETWEEN"
    THEN <<a.column, Sql("BETWEEN"), a.operands[1], Sql("AND"), a.operands[2]>>
    ELSE <<a.column, Sql(a.op), a.operands[1]>>

RenderCondition(c) ==
    LET inner == Join([i \in 1..Len(c.atoms) |-> RenderAtom(c.atoms[i])], Sql("OR"))
    IN IF c.wrapped THEN <<Sql("(")>> \o inner \o <<Sql(")")>> ELSE inner

----------------------------------------------------------------------------
(* The viewer on a table with contents: search, column filters, SQL text (SpecFilter) *)

\* Columns of the table shown: an INTEGER PRIMARY KEY, a nullable INTEGER and a
\* nullable TEXT column whose name holds a double quote.
KeyColumn == <<"k">>

NumberColumn == <<"q">>

TextColumn == <<"n", "\"">>

\* PRAGMA table_info order
Columns == <<KeyColumn, NumberColumn, TextColumn>>

Row(k, q, n) == (KeyColumn :> JsNumber(k)) @@ (NumberColumn :> q) @@ (TextColumn :> n)

\* The rows of the table, by rowid.
TableRows ==
    (1 :> Row(1, JsNumber(5), JsString(<<"a", "b">>)))
        @@ (2 :> Row(2, JsNull, JsString(<<"b", "'">>)))
        @@ (3 :> Row(3, JsNumber(7), JsNull))
        @@ (4 :> Row(4, JsNumber(5), JsNull))

FilterColumns == {NumberColumn, TextColumn}

\* type FilterOperator without 'equals', which no control of the dialog selects
NullOperators == {"is_null", "not_null"}

ComparisonOperators == {"gt", "gte", "lt", "lte"}

\* The operators the dialog offers for a column: the numeric ones for a
\* column whose declared type holds INT, REAL, NUM, FLOAT or DOUBLE.
OperatorsOf(column) ==
    IF column = TextColumn THEN {"in"} \cup NullOperators
    ELSE {"in", "between"} \cup NullOperators \cup ComparisonOperators

\* Contents of the value checklist (a Set, in insertion order) and of the
\* number inputs when Apply is pressed.
ValueLists(column) ==
    IF column = TextColumn THEN {<<>>, <<JsString(<<"b", "'">>), JsNull>>}
    ELSE {<<>>, <<JsNumber(5)>>, <<JsNull>>, <<JsNumber(5), JsNull>>}

RangeTexts == {<<>>, <<"5">>}

\* The dialog when Apply is pressed: the checklist is shown for `in`, the
\* first number input for a comparison, both for `between`.
Shown(operator, values, rangeStart, rangeEnd) ==
    /\ operator # "in" => values = <<>>
    /\ operator \notin ComparisonOperators \cup {"between"} => rangeStart = <<>>
    /\ operator # "between" => rangeEnd = <<>>

ColumnFilter(columnName, operator, values, rangeStart, rangeEnd) ==
    [columnName |-> columnName, operator |-> operator, values |-> values,
     rangeStart |-> rangeStart, rangeEnd |-> rangeEnd]

RECURSIVE LeadingDigits(_)
LeadingDigits(chars) ==
    IF chars = <<>> \/ ~IsDigits(<<Head(chars)>>) THEN <<>>
    ELSE <<Head(chars)>> \o LeadingDigits(Tail(chars))

\* parseFloat(text) on integers: the number the longest numeric prefix
\* denotes, or NaN.
parseFloat(text) ==
    LET negative == text # <<>> /\ Head(text) = "-"
        digits == LeadingDigits(IF negative THEN Tail(text) ELSE text)
    IN IF digits = <<>> THEN NaN
       ELSE JsNumber(IF negative THEN -ParseDigits(digits, 0) ELSE ParseDigits(digits, 0))

\* `${n}` for an optional number: a number's digits, NaN, or undefined
TemplateText(n) == IF n = Nothing THEN <<"undefined">> ELSE SqlLiteral(Head(n))

ComparisonSymbol(operator) ==
    CASE operator = "gt" -> ">"
      [] operator = "gte" -> ">="
      [] operator = "lt" -> "<"
      [] operator = "lte" -> "<="

InWithoutNullBranchMutant(filter) ==
    <<Condition(<<Atom(Quoted(filter.columnName), "IN",
                       [i \in 1..Len(filter.values) |->
                           Value(SqlLiteral(filter.values[i]))])>>, FALSE)>>

\* case 'in' of fetchTableData: the condition, or none for an empty value list
InCondition(filter) ==
    LET colName == Quoted(filter.columnName)
        nullValues == SelectSeq(filter.values, LAMBDA v : v = JsNull)
        nonNullValues == SelectSeq(filter.values, LAMBDA v : v # JsNull)
        conditions ==
            (IF Len(nonNullValues) > 0
             THEN <<Atom(colName, "IN",
                         [i \in 1..Len(nonNullValues) |->
                             Value(SqlLiteral(nonNullValues[i]))])>>
             ELSE <<>>)
            \o (IF Len(nullValues) > 0 THEN <<Atom(colName, "IS NULL", <<>>)>> ELSE <<>>)
    IN IF Len(filter.values) > 0 THEN <<Condition(conditions, Len(conditions) > 1)>>
       ELSE <<>>

\* The switch over filter.operator: the filterCondition pushed for a filter.
FilterCondition(filter) ==
    LET colName == Quoted(filter.columnName)
    IN CASE filter.operator = "in" -> InCondition(filter)
         [] filter.operator \in ComparisonOperators ->
              <<Condition(<<Atom(colName, ComparisonSymbol(filter.operator),
                                 <<Value(SqlLiteral(filter.values[1]))>>)>>, FALSE)>>
         [] filter.operator = "between" ->
              <<Condition(<<Atom(colName, "BETWEEN",
                                 <<Value(TemplateText(filter.rangeStart)),
                                   Value(TemplateText(filter.rangeEnd))>>)>>, FALSE)>>
         [] filter.operator = "is_null" ->
              <<Condition(<<Atom(colName, "IS NULL", <<>>)>>, FALSE)>>
         [] filter.operator = "not_null" ->
              <<Condition(<<Atom(colName, "IS NOT NULL", <<>>)>>, FALSE)>>

\* `${quoteIdentifier(col.name)} LIKE '%${escapedSearch}%'` joined by OR, in parentheses
SearchCondition(columns, search) ==
    LET escapedSearch == ReplaceAll(search, "'", <<"'", "'">>)
    IN Condition([i \in 1..Len(columns) |->
                     Atom(Quoted(columns[i]), "LIKE",
                          <<Value(<<"'", "%">> \o escapedSearch \o <<"%", "'">>)>>)],
                 TRUE)

RECURSIVE FilterConditions(_)
FilterConditions(filters) ==
    IF filters = <<>> THEN <<>>
    ELSE FilterCondition(Head(filters)) \o FilterConditions(Tail(filters))

\* whereConditions of fetchTableData
WhereConditions(columns, search, filters) ==
    (IF search # <<>> THEN <<SearchCondition(columns, search)>> ELSE <<>>)
        \o FilterConditions(filters)

\* ` WHERE ${whereConditions.join(' AND ')}`
WhereText(conditions) ==
    IF Len(conditions) > 0
    THEN <<Sql("WHERE")>>
            \o Join([i \in 1..Len(conditions) |-> RenderCondition(conditions[i])], Sql("AND"))
    ELSE <<>>

CountWithoutWhereMutant(whereConditions) == <<>>

\* The conditions countQuery is given.
CountConditions(whereConditions) == whereConditions

\* The statements of fetchTableData's composed branch.
TableInfoStatement(table) ==
    Statement(<<Sql("PRAGMA table_info("), Quoted(table), Sql(")")>>, <<>>)

DataStatement(table, conditions, column, direction, pageSize, offset) ==
    Statement(<<Sql("SELECT rowid as"), Quoted(<<INTERNAL_ROWID_COLUMN>>), Sql(", * FROM"),
                Quoted(table)>>
                 \o WhereText(conditions)
                 \o (IF column # Nothing /\ direction # Nothing
                     THEN <<Sql("ORDER BY"), Quoted(Head(column)), Sql(Head(direction))>>
                     ELSE <<>>)
                 \o <<Sql("LIMIT"), Paging(pageSize), Sql("OFFSET"), Paging(offset)>>,
              <<>>)

CountStatement(table, conditions) ==
    Statement(<<Sql("SELECT COUNT(*) as count FROM"), Quoted(table)>> \o WhereText(conditions),
              <<>>)

\* The statements of getTableData.
PlainDataStatement(table, limit, offset) ==
    Statement(<<Sql("SELECT rowid as"), Quoted(<<INTERNAL_ROWID_COLUMN>>), Sql(", * FROM"),
                Quoted(table), Sql("LIMIT"), Placeholder, Sql("OFFSET"), Placeholder>>,
              <<limit, offset>>)

\* The branch of fetchTableData taken with a search text, a sort state or
\* filters, for a data query selecting n rows and a count query counting count.
ComposedResult(n, count, pageSize, offset, optimized, maxQ) ==
    LET r == ExecuteQueryResult(Limited(n, pageSize, offset), optimized, maxQ)
        countResult == ExecuteQueryResult(1, optimized, maxQ)
        totalCount == IF RowCount(countResult.rows) >= 1 THEN count ELSE 0
    IN [data |-> [rows |-> Page(r.rows, offset), rowCount |-> r.rowCount,
                  totalCount |-> totalCount, limit |-> pageSize, offset |-> offset],
        sqlLimit |-> pageSize, sqlOffset |-> offset, countRan |-> TRUE]

\* The statements a fetchTableData call hands to the engine, in order; bound
\* is the limit getTableData binds, counted whether it counts the rows.
FetchStatements(table, search, filters, column, direction, pageSize, offset, bound, counted) ==
    LET whereConditions == WhereConditions(Columns, search, filters)
    IN IF search # <<>> \/ (column # Nothing /\ direction # Nothing) \/ Len(filters) > 0
       THEN (IF search # <<>> THEN <<TableInfoStatement(table)>> ELSE <<>>)
               \o <<DataStatement(table, whereConditions, column, direction, pageSize, offset),
                    CountStatement(table, CountConditions(whereConditions))>>
       ELSE (IF counted THEN <<CountStatement(table, <<>>)>> ELSE <<>>)
               \o <<PlainDataStatement(table, bound, offset)>>

\* fetchTableData(table, page, search, filters) on the table's rows, as the
\* handler's render closed over it. The WHERE conditions are built once, and
\* each statement is answered once.
fetchTableDataRows(table, page, search, filters) ==
    \E whereConditions \in {WhereConditions(Columns, search, filters)} :
    \E answer \in {Answer(TableRows, whereConditions)} :
    \E countAnswer \in {IF CountConditions(whereConditions) = whereConditions THEN answer
                         ELSE Answer(TableRows, CountConditions(whereConditions))} :
    \E f \in {IF Composed(search, sortColumn, sortDirection) \/ Len(filters) > 0
               THEN ComposedResult(Cardinality(answer.selected),
                                   Cardinality(countAnswer.selected),
                                   itemsPerPage, (page - 1) * itemsPerPage,
                                   useMemoryOptimizations, maxQueryResultRows)
               ELSE GetTableData(Cardinality(DOMAIN TableRows),
                                 itemsPerPage, (page - 1) * itemsPerPage,
                                 useMemoryOptimizations, maxQueryResultRows)} :
       LET offset == (page - 1) * itemsPerPage
           composed == Composed(search, sortColumn, sortDirection) \/ Len(filters) > 0
       IN /\ IF composed /\ (answer.failed \/ countAnswer.failed)
             THEN \* catch (error): console.error
                  UNCHANGED <<data, currentPage, request>>
             ELSE /\ data' = f.data
                  /\ currentPage' = page
                  /\ request' = [path |-> IF composed THEN "composed" ELSE "plain",
                                 page |-> page, pageSize |-> itemsPerPage,
                                 optimized |-> useMemoryOptimizations,
                                 maxRows |-> maxQueryResultRows,
                                 matching |-> Cardinality(countAnswer.selected),
                                 sqlLimit |-> f.sqlLimit, sqlOffset |-> f.sqlOffset,
                                 countRan |-> f.countRan]
          /\ issued' = FetchStatements(table, search, filters, sortColumn, sortDirection,
                                       itemsPerPage, offset, f.sqlLimit, f.countRan)
          /\ fetched' = [table |-> table, search |-> search, filters |-> filters]

\* useEffect on [tableName]
tableNameEffect(name) ==
    /\ tableName' = Some(name)
    /\ searchTerm' = <<>>
    /\ sortColumn' = Nothing
    /\ sortDirection' = Nothing
    /\ activeFilters' = <<>>
    /\ fetchTableDataRows(name, 1, <<>>, <<>>)
    /\ alerted' = Nothing
    /\ UNCHANGED <<tableSize, itemsPerPage, tables, columnDistinctValues,
                   cfgVars, result, mutVars, storeVars>>

handleSearchRows ==
    /\ tableName # Nothing
    /\ fetchTableDataRows(Head(tableName), 1, searchTerm, activeFilters)
    /\ alerted' = Nothing
    /\ UNCHANGED <<tableSize, itemsPerPage, searchTerm, sortColumn, sortDirection,
                   tableName, activeFilters, tables, columnDistinctValues,
                   cfgVars, result, mutVars, storeVars>>

handleNextPageRows ==
    /\ tableName # Nothing
    /\ currentPage < MaxPage
    /\ data.totalCount # 0
    /\ currentPage * itemsPerPage < data.totalCount
    /\ fetchTableDataRows(Head(tableName), currentPage + 1, searchTerm, activeFilters)
    /\ alerted' = Nothing
    /\ UNCHANGED <<tableSize, itemsPerPage, searchTerm, sortColumn, sortDirection,
                   tableName, activeFilters, tables, columnDistinctValues,
                   cfgVars, result, mutVars, storeVars>>

handleItemsPerPageChangeRows(numValue) ==
    /\ tableName # Nothing
    /\ numValue > 0
    /\ itemsPerPage' = numValue
    /\ fetchTableDataRows(Head(tableName), 1, searchTerm, activeFilters)
    /\ alerted' = Nothing
    /\ UNCHANGED <<tableSize, searchTerm, sortColumn, sortDirection,
                   tableName, activeFilters, tables, columnDistinctValues,
                   cfgVars, result, mutVars, storeVars>>

handleColumnSortRows(columnName) ==
    /\ tableName # Nothing
    /\ sortColumn' = NextSort(sortColumn, sortDirection, columnName).column
    /\ sortDirection' = NextSort(sortColumn, sortDirection, columnName).direction
    /\ fetchTableDataRows(Head(tableName), currentPage, searchTerm, activeFilters)
    /\ alerted' = Nothing
    /\ UNCHANGED <<tableSize, itemsPerPage, searchTerm,
                   tableName, activeFilters, tables, columnDistinctValues,
                   cfgVars, result, mutVars, storeVars>>

\* onChange of the search box, in the viewer with filters
setSearchTermRows(value) ==
    /\ searchTerm' = value
    /\ alerted' = Nothing
    /\ UNCHANGED <<tableSize, itemsPerPage, currentPage, sortColumn, sortDirection, data,
                   request, tableName, activeFilters, issued, fetched, tables,
                   columnDistinctValues, cfgVars, result, mutVars, storeVars>>

KeepOneFilterPerColumnMutant(filters, columnName) == filters

\* activeFilters.filter(f => f.columnName !== columnName)
WithoutColumn(filters, columnName) ==
    SelectSeq(filters, LAMBDA f : f.columnName # columnName)

AcceptAnyRangeMutant(rangeStart, rangeEnd) == TRUE

\* !isNaN(start) && !isNaN(end)
ValidRange(rangeStart, rangeEnd) ==
    ~isNaN(parseFloat(rangeStart)) /\ ~isNaN(parseFloat(rangeEnd))

\* What applyFilter makes of the dialog's state: the filter it builds, or the
\* alert it shows before it returns.
Built(filter) == [filter |-> Some(filter), alert |-> Nothing]

Refused(message) == [filter |-> Nothing, alert |-> Some(message)]

NewFilter(column, operator, values, rangeStart, rangeEnd) ==
    IF operator = "between"
    THEN IF ValidRange(rangeStart, rangeEnd)
         THEN Built(ColumnFilter(column, operator, values,
                                 Some(parseFloat(rangeStart)), Some(parseFloat(rangeEnd))))
         ELSE Refused("Please enter valid numbers for range")
    ELSE IF operator \in ComparisonOperators
    THEN IF ~isNaN(parseFloat(rangeStart))
         THEN Built(ColumnFilter(column, operator, <<parseFloat(rangeStart)>>,
                                 Nothing, Nothing))
         ELSE Refused("Please enter a valid number")
    ELSE IF operator = "in" /\ Len(values) = 0
    THEN Refused("Please select at least one value")
    ELSE Built(ColumnFilter(column, operator, values, Nothing, Nothing))

\* applyFilter with the dialog open on `column`, the operator select at
\* `operator`, the checklist at `values` and the number inputs at rangeStart
\* and rangeEnd.
applyFilter(column, operator, values, rangeStart, rangeEnd) ==
    LET new == NewFilter(column, operator, values, rangeStart, rangeEnd)
        updatedFilters == Append(WithoutColumn(activeFilters, column), Head(new.filter))
    IN /\ tableName # Nothing
       /\ alerted' = new.alert
       /\ IF new.filter = Nothing
          THEN UNCHANGED <<activeFilters, currentPage, data, request, issued, fetched>>
          ELSE /\ activeFilters' = updatedFilters
               /\ fetchTableDataRows(Head(tableName), 1, searchTerm, updatedFilters)
       /\ UNCHANGED <<tableSize, itemsPerPage, searchTerm, sortColumn, sortDirection,
                      tableName, tables, columnDistinctValues,
                      cfgVars, result, mutVars, storeVars>>

removeFilter(columnName) ==
    LET updatedFilters == WithoutColumn(activeFilters, columnName)
    IN /\ tableName # Nothing
       /\ activeFilters' = updatedFilters
       /\ fetchTableDataRows(Head(tableName), currentPage, searchTerm, updatedFilters)
       /\ alerted' = Nothing
       /\ UNCHANGED <<tableSize, itemsPerPage, searchTerm, sortColumn, sortDirection,
                      tableName, tables, columnDistinctValues,
                      cfgVars, result, mutVars, storeVars>>

clearAllFilters ==
    /\ tableName # Nothing
    /\ activeFilters' = <<>>
    /\ fetchTableDataRows(Head(tableName), 1, searchTerm, <<>>)
    /\ alerted' = Nothing
    /\ UNCHANGED <<tableSize, itemsPerPage, searchTerm, sortColumn, sortDirection,
                   tableName, tables, columnDistinctValues,
                   cfgVars, result, mutVars, storeVars>>

\* SELECT DISTINCT col FROM table ORDER BY col LIMIT 1000; the values are kept
\* as a set.
fetchDistinctValues(columnName) ==
    /\ tableName # Nothing
    /\ issued' = <<Statement(<<Sql("SELECT DISTINCT"), Quoted(columnName), Sql("FROM"),
                               Quoted(Head(tableName)), Sql("ORDER BY"), Quoted(columnName),
                               Sql("LIMIT 1000")>>, <<>>)>>
    /\ columnDistinctValues' = {TableRows[r][columnName] : r \in DOMAIN TableRows}
    /\ alerted' = Nothing
    /\ UNCHANGED <<browseVars, tableName, activeFilters, fetched, tables,
                   cfgVars, result, mutVars, storeVars>>

\* getTableColumns(tableName) of the effect on [tableName, selectedDatabase]
getTableColumns ==
    /\ tableName # Nothing
    /\ issued' = <<TableInfoStatement(Head(tableName))>>
    /\ alerted' = Nothing
    /\ UNCHANGED <<browseVars, tableName, activeFilters, fetched, tables,
                   columnDistinctValues, cfgVars, result, mutVars, storeVars>>

\* The tables of the database, in getTables' order (ORDER BY name).
TableList == <<<<"o", " ", "\"", "x">>, <<"t">>>>

\* A table name the engine reads as one identifier: a quoted identifier, or a
\* bare word.
BareWords == {<<"t">>}

Readable(fragment) == Delimited(fragment.chars, "\"") \/ fragment.chars \in BareWords

\* `SELECT COUNT(*) as count FROM ${table.name}`
RowCountStatement(name) ==
    Statement(<<Sql("SELECT COUNT(*) as count FROM"), Unquoted(name)>>, <<>>)

\* SidebarNavigation.fetchTables: a table whose count statement the engine
\* rejects is listed without a row count.
fetchTables ==
    /\ issued' = <<Statement(<<Sql("SELECT name, sql FROM sqlite_master WHERE type='table' AND name NOT LIKE 'sqlite_%' ORDER BY name")>>, <<>>)>>
                    \o [i \in 1..Len(TableList) |-> RowCountStatement(TableList[i])]
    /\ tables' = [i \in 1..Len(TableList) |->
                     [name |-> TableList[i],
                      rowCount |-> IF Readable(RowCountStatement(TableList[i]).text[2])
                                   THEN Some(Cardinality(DOMAIN TableRows))
                                   ELSE Nothing]]
    /\ alerted' = Nothing
    /\ UNCHANGED <<browseVars, tableName, activeFilters, fetched, columnDistinctValues,
                   cfgVars, result, mutVars, storeVars>>

InitFilter ==
    /\ ConfigInit /\ QueryInit /\ StoreInit /\ FilterInit
    /\ BrowseInit(Cardinality(DOMAIN TableRows))
    /\ db = InitialDb
    /\ pc = [c \in Calls |-> "idle"]
    /\ kind = [c \in Calls |-> "none"]
    /\ args = [c \in Calls |-> NoArgs]
    /\ raised = [c \in Calls |-> "none"]
    /\ buf = [c \in Calls |-> <<>>]
    /\ storeQueue = <<>>
    /\ stored = StoredInfo(Export(InitialDb))
    /\ size = Len(Export(InitialDb))
    /\ returned = [c \in Calls |-> Nothing]

\* Inputs of the viewer with filters.
ViewedTables == {<<"t">>}

SearchTexts == {<<>>, <<"b">>}

FilterPageSizes == {2}

TriedOperators(column) ==
    IF column = TextColumn THEN {"in", "not_null"} ELSE {"in", "gte", "between"}

NextFilter ==
    \/ \E name \in ViewedTables : tableNameEffect(name)
    \/ \E value \in SearchTexts : setSearchTermRows(value)
    \/ handleSearchRows
    \/ handleNextPageRows
    \/ \E numValue \in FilterPageSizes : handleItemsPerPageChangeRows(numValue)
    \/ \E columnName \in {NumberColumn} : handleColumnSortRows(columnName)
    \/ \E column \in FilterColumns : \E operator \in OperatorsOf(column) \cap TriedOperators(column) :
          \E values \in ValueLists(column) : \E rangeStart, rangeEnd \in RangeTexts :
             /\ Shown(operator, values, rangeStart, rangeEnd)
             /\ applyFilter(column, operator, values, rangeStart, rangeEnd)
    \/ \E columnName \in FilterColumns : removeFilter(columnName)
    \/ clearAllFilters

SpecFilter == InitFilter /\ [][NextFilter]_vars

\* The statements of the viewer and the sidebar.
TableNames == {TableList[i] : i \in 1..Len(TableList)}

NextSql ==
    \/ \E name \in TableNames : tableNameEffect(name)
    \/ \E value \in SearchTexts : setSearchTermRows(value)
    \/ handleSearchRows
    \/ \E values \in ValueLists(TextColumn) : applyFilter(TextColumn, "in", values, <<>>, <<>>)
    \/ \E columnName \in FilterColumns : fetchDistinctValues(columnName)
    \/ getTableColumns
    \/ fetchTables

SpecSql == InitFilter /\ [][NextSql]_vars

----------------------------------------------------------------------------
(* Claims about the SQL text handed to the engine *)

\* C12 (as claimed): in every statement issued for table browsing the values
\* the user supplied (search text, filter values, range bounds) are bound
\* parameters: no piece of the statement's text is made from such a value.
C12_ValuesAreBoundParameters ==
    \A i \in 1..Len(issued) :
        \A j \in 1..Len(issued[i].text) : issued[i].text[j].kind # "value"

\* C13 (as claimed): every table or column name placed into the text of a
\* statement (browse, count, per-table row count, distinct values, schema
\* introspection) is there as quoteIdentifier made it: in double quotes, every
\* embedded double quote doubled.
C13_IdentifiersAreQuoted ==
    \A i \in 1..Len(issued) :
        \A j \in 1..Len(issued[i].text) :
            issued[i].text[j].kind = "identifier" =>
                /\ issued[i].text[j].chars = quoteIdentifier(issued[i].text[j].name)
                /\ Delimited(issued[i].text[j].chars, "\"")
                /\ Inner(issued[i].text[j].chars, "\"") = issued[i].text[j].name

----------------------------------------------------------------------------
(* Claims about the column filters *)

\* C15: after any sequence of applyFilter, removeFilter, clearAllFilters and
\* table switches activeFilters holds at most one filter per column, and every
\* step either leaves activeFilters alone, removes filters from it, or puts one
\* filter at its end in place of the filter its column had, the filters of all
\* other columns staying as they were, in their order.
C15_OneFilterPerColumn ==
    [][LET others(filters, column) ==
               SelectSeq(filters, LAMBDA f : f.columnName # column)
           n == Len(activeFilters')
       IN /\ \A i, j \in 1..n :
                 activeFilters'[i].columnName = activeFilters'[j].columnName => i = j
          /\ \/ activeFilters' = activeFilters
             \/ activeFilters' = <<>>
             \/ \E column \in FilterColumns : activeFilters' = others(activeFilters, column)
             \/ /\ n > 0
                /\ SubSeq(activeFilters', 1, n - 1)
                      = others(activeFilters, activeFilters'[n].columnName)]_vars

\* Both columns are filtered, the number column's filter, a range, being the
\* later one, and the table shows the rows that pass both.
C15_Witness ==
    /\ Len(activeFilters) = 2
    /\ activeFilters[1].columnName = TextColumn
    /\ activeFilters[1].operator = "not_null"
    /\ activeFilters[2].columnName = NumberColumn
    /\ activeFilters[2].operator = "between"
    /\ fetched.filters = activeFilters
    /\ data.totalCount = 1

\* C16: applyFilter on a malformed filter (between without two numeric bounds;
\* gt, gte, lt or lte without a numeric value; in with no value selected)
\* shows an alert and does nothing else: no statement is handed to the engine,
\* and activeFilters and the data shown stay as they were. No filter in
\* activeFilters is malformed.
C16_MalformedFilterIsRejected ==
    [][LET numeric(text) ==
               /\ text # <<>>
               /\ \A i \in 1..Len(text) :
                     text[i] \in {"0", "1", "2", "3", "4", "5", "6", "7", "8", "9"}
           malformed(operator, values, rangeStart, rangeEnd) ==
               \/ operator = "between" /\ ~(numeric(rangeStart) /\ numeric(rangeEnd))
               \/ operator \in {"gt", "gte", "lt", "lte"} /\ ~numeric(rangeStart)
               \/ operator = "in" /\ values = <<>>
       IN /\ \A column \in FilterColumns : \A operator \in OperatorsOf(column) :
             \A values \in ValueLists(column) : \A rangeStart, rangeEnd \in RangeTexts :
                 ( /\ malformed(operator, values, rangeStart, rangeEnd)
                   /\ applyFilter(column, operator, values, rangeStart, rangeEnd) )
                 => /\ alerted' # Nothing
                    /\ activeFilters' = activeFilters
                    /\ issued' = issued
                    /\ fetched' = fetched
                    /\ data' = data
          /\ \A i \in 1..Len(activeFilters') :
                LET f == activeFilters'[i]
                IN /\ f.operator = "in" => f.values # <<>>
                   /\ f.operator \in {"gt", "gte", "lt", "lte"} =>
                         Len(f.values) = 1 /\ f.values[1].t = "number"
                   /\ f.operator = "between" =>
                         /\ f.rangeStart # Nothing /\ Head(f.rangeStart).t = "number"
                         /\ f.rangeEnd # Nothing /\ Head(f.rangeEnd).t = "number"]_vars

\* A range without its bounds was refused while a filter was active: the
\* alert is up, and the filter and the rows shown for it are still there.
C16_Witness ==
    /\ alerted = Some("Please enter valid numbers for range")
    /\ Len(activeFilters) = 1
    /\ activeFilters[1].operator = "in"
    /\ fetched.filters = activeFilters
    /\ request.path = "composed"

\* C17: the condition generated for an `in` filter selects exactly the rows
\* whose column holds one of the listed non-null values or, when null is
\* listed, is NULL. A list of null alone yields `col IS NULL` alone, a list
\* without null `col IN (...)` alone, a list with both the two joined by OR in
\* parentheses.
C17_InFilterMatchesListedValuesAndNull ==
    \A i \in 1..Len(fetched.filters) :
        LET f == fetched.filters[i]
            listed == {f.values[k] : k \in 1..Len(f.values)}
            c == FilterCondition(f)
            ops == [k \in 1..Len(c[1].atoms) |-> c[1].atoms[k].op]
        IN f.operator = "in" =>
              /\ Len(c) = 1
              /\ Selected(TableRows, c)
                    = {r \in DOMAIN TableRows : TableRows[r][f.columnName] \in listed}
              /\ \A k \in 1..Len(c[1].atoms) :
                    ColumnNamed(c[1].atoms[k].column.chars) = f.columnName
              /\ IF listed = {JsNull} THEN ops = <<"IS NULL">>
                 ELSE IF JsNull \notin listed THEN ops = <<"IN">>
                 ELSE ops = <<"IN", "IS NULL">> /\ c[1].wrapped

\* The number column is filtered by `in` with 5 and null: the rows shown are
\* the two that hold 5 and the one that holds NULL.
C17_Witness ==
    /\ fetched.search = <<>>
    /\ fetched.filters = <<ColumnFilter(NumberColumn, "in", <<JsNumber(5), JsNull>>,
                                        Nothing, Nothing)>>
    /\ request.path = "composed"
    /\ data.totalCount = 3

\* C18: after a browse with a search text, filters or both, totalCount is the
\* number of rows of the table that hold the search text in one of their
\* columns and pass every filter, whatever the page, the page size and the
\* sort.
C18_CountUsesTheSameWhere ==
    LET holds(row, search) ==
            \E column \in DOMAIN row :
                /\ row[column] # JsNull
                /\ Contains(TextOf(row[column]), search)
        passes(row, f) ==
            LET cell == row[f.columnName]
            IN CASE f.operator = "in" -> \E k \in 1..Len(f.values) : f.values[k] = cell
                 [] f.operator = "is_null" -> cell = JsNull
                 [] f.operator = "not_null" -> cell # JsNull
                 [] f.operator = "between" ->
                      /\ cell.t = "number"
                      /\ Head(f.rangeStart).n <= cell.n
                      /\ cell.n <= Head(f.rangeEnd).n
                 [] f.operator = "gt" -> cell.t = "number" /\ cell.n > f.values[1].n
                 [] f.operator = "gte" -> cell.t = "number" /\ cell.n >= f.values[1].n
                 [] f.operator = "lt" -> cell.t = "number" /\ cell.n < f.values[1].n
                 [] f.operator = "lte" -> cell.t = "number" /\ cell.n <= f.values[1].n
        matching ==
            {r \in DOMAIN TableRows :
                /\ fetched.search # <<>> => holds(TableRows[r], fetched.search)
                /\ \A i \in 1..Len(fetched.filters) : passes(TableRows[r], fetched.filters[i])}
    IN (fetched.search # <<>> \/ fetched.filters # <<>>) =>
           /\ request.path = "composed"
           /\ data.totalCount = Cardinality(matching)

\* Search text and two filters, on a sorted table shown two rows a page: rows
\* 1 and 2 hold the text b, and both pass `q in (5, NULL)` and `n not null`.
C18_Witness ==
    /\ fetched.search = <<"b">>
    /\ Len(fetched.filters) = 2
    /\ sortColumn # Nothing
    /\ request.pageSize = 2
    /\ data.totalCount = 2

----------------------------------------------------------------------------
(* Browsing a table's rows: after a mutation, and a table WITHOUT ROWID *)

\* The tables of the loaded database: t(id INTEGER PRIMARY KEY, name TEXT),
\* whose rows are db.rows, and
\* w(a INTEGER, b INTEGER, v TEXT, PRIMARY KEY (a, b)) WITHOUT ROWID.
RowidTable == "t"

WithoutRowidTable == "w"

\* PRAGMA table_info(table): name and pk of each column, in declared order.
TableColumns(table) ==
    IF table = RowidTable
    THEN << [name |-> "id", pk |-> 1], [name |-> "name", pk |-> 0] >>
    ELSE << [name |-> "a", pk |-> 1], [name |-> "b", pk |-> 2], [name |-> "v", pk |-> 0] >>

\* The rows of w, in primary key order.
WithoutRowidRows == << <<1, 1, "p">>, <<1, 2, "q">> >>

\* The engine resolves the column reference rowid in every table but a
\* WITHOUT ROWID table, which has no such column: prepare rejects the statement.
RowidReadable(table) == table # WithoutRowidTable

\* Every row `SELECT rowid as "__rowid__", * FROM table` produces, in the
\* engine's native order (ascending rowid).
Produced(d, table) ==
    IF table = RowidTable
    THEN [i \in 1..Cardinality(DOMAIN d.rows) |->
            <<Ascending(DOMAIN d.rows)[i], Ascending(DOMAIN d.rows)[i],
              d.rows[Ascending(DOMAIN d.rows)[i]]>>]
    ELSE <<>>

\* Object.keys(firstRow): the result's column names.
ResultColumns(table) ==
    <<INTERNAL_ROWID_COLUMN>> \o [i \in 1..Len(TableColumns(table)) |-> TableColumns(table)[i].name]

BoundPagingSwappedMutant(limit, offset) == [limit |-> offset, offset |-> limit]

\* dataStmt.bind([limit, offset]) on `... LIMIT ? OFFSET ?`
BoundPaging(limit, offset) == [limit |-> limit, offset |-> offset]

\* The rows a statement producing seq yields under LIMIT limit OFFSET offset.
Window(seq, limit, offset) == SubSeq(seq, offset + 1, Min2(Len(seq), offset + limit))

BrowseArgs(table, limit, offset) ==
    [identifier |-> NullIdentifier, values |-> <<>>,
     table |-> table, limit |-> limit, offset |-> offset]

\* getTableData(tableName, limit, offset): the count statement unless skipped,
\* then the page statement; an engine error is rethrown as 'Failed to retrieve
\* data from table ...'.
getTableDataRows(c, table, limit, offset) ==
    /\ pc[c] = "idle"
    /\ LET all == Produced(db, table)
           g == GetTableData(Len(all), limit, offset, useMemoryOptimizations, maxQueryResultRows)
           paging == BoundPaging(g.sqlLimit, g.sqlOffset)
           rows == Window(all, paging.limit, paging.offset)
           counted == IF g.countRan THEN Logged(db, c, "COUNT", TRUE, <<>>) ELSE db
       IN IF RowidReadable(table)
          THEN /\ db' = Logged(counted, c, "SELECT", TRUE, <<>>)
               /\ raised' = [raised EXCEPT ![c] = "none"]
               /\ returned' = [returned EXCEPT ![c] =
                     Some([columns |-> IF rows = <<>> THEN <<>> ELSE ResultColumns(table),
                           rows |-> rows,
                           rowCount |-> g.data.rowCount, totalCount |-> g.data.totalCount,
                           limit |-> g.data.limit, offset |-> g.data.offset])]
          ELSE /\ db' = Logged(counted, c, "SELECT", FALSE, <<>>)
               /\ raised' = [raised EXCEPT ![c] = "RetrieveError"]
               /\ UNCHANGED returned
    /\ pc' = [pc EXCEPT ![c] = "done"]
    /\ kind' = [kind EXCEPT ![c] = "getTableData"]
    /\ args' = [args EXCEPT ![c] = BrowseArgs(table, limit, offset)]
    /\ UNCHANGED <<buf, storeQueue, stored, size, cfgVars, result, browseVars, storeVars,
                   filterVars>>

\* tableColumns.filter(col => col.pk > 0).sort((a, b) => a.pk - b.pk)
RECURSIVE SortedByPk(_)
SortedByPk(S) ==
    IF S = {} THEN <<>>
    ELSE LET first == CHOOSE x \in S : \A y \in S : x.pk <= y.pk
         IN <<first>> \o SortedByPk(S \ {first})

primaryKeyColumns(tableColumns) ==
    SortedByPk({tableColumns[i] : i \in {j \in 1..Len(tableColumns) : tableColumns[j].pk > 0}})

\* rowsWithMeta: the identifier the viewer derives for each row of data.
rowsWithMeta(queryResult, tableColumns) ==
    [i \in 1..Len(queryResult.rows) |->
        LET row == queryResult.rows[i]
            named == {j \in 1..Len(queryResult.columns) : TRUE}
            index(name) == {j \in named : queryResult.columns[j] = name}
            value(name) == row[CHOOSE j \in index(name) : TRUE]
            keys == SelectSeq(primaryKeyColumns(tableColumns), LAMBDA col : index(col.name) # {})
            primaryKeyValues == [k \in 1..Len(keys) |-> <<keys[k].name, value(keys[k].name)>>]
        IN RowIdentifier(IF index(INTERNAL_ROWID_COLUMN) # {}
                         THEN Some(value(INTERNAL_ROWID_COLUMN)) ELSE Nothing,
                         Len(primaryKeyValues) > 0, primaryKeyValues)]

\* Inputs: the identifiers the viewer derives for a row of t and for a row
\* that is gone, the columns an edit can set.
EditIdentifiers == {RowIdentifier(Some(r), TRUE, << <<"id", r>> >>) : r \in {1, 3}}

EditValueMaps ==
    { << <<"name", "z">> >>,
      << <<"id", 3>> >>,
      << <<"id", 2>>, <<"name", "z">> >> }

EditTables == {RowidTable, WithoutRowidTable}

\* The pages asked for: the first and the second row alone, and a page size
\* above the count-skip threshold.
EditPages == {[limit |-> 1, offset |-> 0], [limit |-> 1, offset |-> 1],
              [limit |-> 1001, offset |-> 0]}

EditMaxRows == {2000}

\* The engine executes every edit but an UPDATE that would break the primary key.
NextEdit ==
    \/ \E c \in Calls, identifier \in EditIdentifiers, values \in EditValueMaps :
          updateRow(c, identifier, values, "ok")
    \/ \E c \in Calls, identifier \in EditIdentifiers : deleteRow(c, identifier, "ok")
    \/ \E ok \in BOOLEAN : storeDatabaseDone(ok)
    \/ \E c \in Calls, table \in EditTables, page \in EditPages :
          getTableDataRows(c, table, page.limit, page.offset)
    \/ \E maxRows \in EditMaxRows : setMaxQueryResultRows(maxRows)

SpecEdit == InitMut /\ [][NextEdit]_vars

----------------------------------------------------------------------------
(* Claims about browsing after a mutation and about tables WITHOUT ROWID,
   checked under SpecEdit *)

\* The identifier a row of w has when it is its full composite primary key.
CompositeKey(row) == RowIdentifier(Nothing, TRUE, << <<"a", row[1]>>, <<"b", row[2]>> >>)

\* C19 (as claimed): for a table without a native row identifier, browsing
\* the table succeeds and each row's identifier is its full composite primary
\* key. Violated: the browse statement selects rowid, which such a table does
\* not have, so every browse of it fails and no identifier is derived.
C19_RowidlessTableIsBrowsed ==
    \A c \in Calls :
        (kind[c] = "getTableData" /\ pc[c] = "done" /\ args[c].table = WithoutRowidTable) =>
            /\ raised[c] = "none"
            /\ returned[c] # Nothing
            /\ LET shown == Window(WithoutRowidRows, returned[c][1].limit, returned[c][1].offset)
               IN rowsWithMeta(returned[c][1], TableColumns(WithoutRowidTable))
                     = [i \in 1..Len(shown) |-> CompositeKey(shown[i])]

\* The rows of t as a browse lists them, without the synthetic first column.
Listing(rows) ==
    [i \in 1..Cardinality(DOMAIN rows) |->
        <<Ascending(DOMAIN rows)[i], rows[Ascending(DOMAIN rows)[i]]>>]

\* Call m is the only one whose INSERT, UPDATE or DELETE the engine executed.
OnlyMutation(m) ==
    \A i \in 1..Len(db.log) :
        (db.log[i].op \in {"INSERT", "UPDATE", "DELETE"} /\ db.log[i].ok) => db.log[i].call = m

\* Call b browsed t after everything call m did on the engine.
BrowsedAfter(m, b) ==
    /\ m # b
    /\ kind[m] \in {"updateRow", "deleteRow"}
    /\ pc[m] = "done"
    /\ raised[m] = "none"
    /\ args[m].identifier.rowid # Nothing
    /\ OnlyMutation(m)
    /\ kind[b] = "getTableData"
    /\ pc[b] = "done"
    /\ args[b].table = RowidTable
    /\ returned[b] # Nothing
    /\ \A i, j \in 1..Len(db.log) : (db.log[i].call = m /\ db.log[j].call = b) => i < j

\* The listing after call m as the claim words it: a deleted row is absent, the
\* updated row carries the new values at its original position.
ListingAsClaimed(before, m) ==
    LET rowid == args[m].identifier.rowid[1]
        set == Entries(args[m].values)
        old == Listing(before)
    IN IF kind[m] = "deleteRow"
       THEN SelectSeq(old, LAMBDA row : row[1] # rowid)
       ELSE [i \in 1..Len(old) |->
               IF old[i][1] # rowid THEN old[i]
               ELSE <<IF Sets(set, "id") THEN Bound(set, "id") ELSE old[i][1],
                      IF Sets(set, "name") THEN Bound(set, "name") ELSE old[i][2]>>]

RECURSIVE ById(_)
ById(S) ==
    IF S = {} THEN <<>>
    ELSE LET first == CHOOSE x \in S : \A y \in S : x[1] <= y[1]
         IN <<first>> \o ById(S \ {first})

\* The same rows in the engine's native order: a row whose rowid the update
\* reassigned is listed where its new rowid puts it.
ListingInRowidOrder(before, m) ==
    ById({ListingAsClaimed(before, m)[i] : i \in 1..Len(ListingAsClaimed(before, m))})

\* The page of a listing that a QueryResult holds.
ShowsPageOf(queryResult, listing) ==
    /\ Len(queryResult.rows) = Max2(0, Min2(queryResult.limit, Len(listing) - queryResult.offset))
    /\ \A i \in 1..Len(queryResult.rows) :
          /\ queryResult.offset + i <= Len(listing)
          /\ SubSeq(queryResult.rows[i], 2, 3) = listing[queryResult.offset + i]

\* Call b ran a COUNT(*) statement.
Counted(b) == \E i \in 1..Len(db.log) : db.log[i].call = b /\ db.log[i].op = "COUNT"

\* C20 (as claimed): after a successful updateRow or deleteRow addressed by
\* rowid, the next browse lists the updated row with its new values at its
\* original position, no deleted row, every other row unchanged, and
\* totalCount is the new number of rows.
C20_BrowseReflectsMutationAsClaimed ==
    \A m, b \in Calls :
        BrowsedAfter(m, b) =>
            /\ ShowsPageOf(returned[b][1], ListingAsClaimed(InitialRows, m))
            /\ returned[b][1].totalCount = Len(ListingAsClaimed(InitialRows, m))

\* C20 (amended): after a successful updateRow or deleteRow addressed by
\* rowid, the next browse lists the rows in rowid order: the updated row
\* carries its new values (at its original position unless the update
\* reassigned its rowid), a deleted row is absent, every other row is
\* unchanged; totalCount is the new number of rows, or -1 when the browse
\* skipped the count, which it does only for a clamped page size above 1000.
C20_BrowseReflectsMutation ==
    \A m, b \in Calls :
        BrowsedAfter(m, b) =>
            /\ ShowsPageOf(returned[b][1], ListingInRowidOrder(InitialRows, m))
            /\ returned[b][1].totalCount
                  = IF Counted(b) THEN Len(ListingInRowidOrder(InitialRows, m)) ELSE -1
            /\ ~Counted(b) => returned[b][1].limit > CountSkipThreshold

\* An update of row 1's name through its rowid succeeded and the following
\* browse of the first page shows both rows.
C20_Witness ==
    \E m, b \in Calls :
        /\ BrowsedAfter(m, b)
        /\ kind[m] = "updateRow"
        /\ args[m].identifier.rowid = Some(1)
        /\ Entries(args[m].values) = << <<"name", "z">> >>
        /\ returned[b][1].rows = << <<1, 1, "z">>, <<2, 2, "b">> >>
        /\ returned[b][1].totalCount = 2

----------------------------------------------------------------------------
(* Claims about column introspection and about concurrent mutations, checked
   under SpecMut *)

\* The PRAGMA table_info statements the engine has received for the table.
Introspections(d) == {i \in 1..Len(d.log) : d.log[i].op = "PRAGMA"}

\* C21: over a session the column-introspection query reaches the engine at
\* most once for the (database, table) pair; later getTableColumns calls are
\* answered from the cache.
C21_ColumnsAreIntrospectedOnce == Cardinality(Introspections(db)) <= 1

\* The mutation calls that have returned.
Returned(c) == kind[c] \in Mutations /\ pc[c] = "done"

\* No write to the persistent store has failed, and no call awaits one.
WritesSucceeded ==
    /\ storeQueue = <<>>
    /\ \A c \in Calls : pc[c] # "awaitStore" /\ raised[c] # "PersistenceError"

\* C30: whatever the interleaving of insertRow, updateRow and deleteRow calls,
\* when their writes to the persistent store all succeeded and every call has
\* returned, the stored image is the current in-memory image and the tracked
\* size is its length.
C30_StoreMatchesMemoryWhenQuiescent ==
    WritesSucceeded =>
        /\ stored.buffer = Export(db)
        /\ stored.size = Len(Export(db))
        /\ size = Len(Export(db))

\* Two mutations overlapped (the second committed while the first awaited its
\* put), both returned, and the store holds the second one's image.
C30_Witness ==
    /\ WritesSucceeded
    /\ \E c1, c2 \in Calls :
          /\ c1 # c2
          /\ Returned(c1) /\ Returned(c2)
          /\ raised[c1] = "none" /\ raised[c2] = "none"
          /\ kind[c1] = "insertRow" /\ kind[c2] = "deleteRow"
          /\ buf[c1] # buf[c2]
          /\ Len(buf[c2]) < Len(buf[c1])
          /\ stored.buffer = buf[c2]

----------------------------------------------------------------------------
(* Row identity: the WHERE clause built for the identifier the viewer derives *)

\* PRAGMA table_info of the tables whose rows are identified:
\* t(id INTEGER PRIMARY KEY, name), k(y, x, v, PRIMARY KEY (x, y)),
\* n("2", "1", v, PRIMARY KEY ("2", "1")), h(v) without a primary key.
KeyedColumns(table) ==
    CASE table = "t" -> << [name |-> "id", pk |-> 1], [name |-> "name", pk |-> 0] >>
      [] table = "k" -> << [name |-> "y", pk |-> 2], [name |-> "x", pk |-> 1],
                           [name |-> "v", pk |-> 0] >>
      [] table = "n" -> << [name |-> "2", pk |-> 1], [name |-> "1", pk |-> 2],
                           [name |-> "v", pk |-> 0] >>
      [] OTHER -> << [name |-> "v", pk |-> 0] >>

KeyedTables == {"t", "k", "n", "h"}

ShownRows == 1..2

\* The page the viewer holds for a table: the declared columns, preceded by
\* the __rowid__ column when the statement projected it; row r holds
\* 10 * r + j in its j-th declared column and r as its rowid.
ShownData(table, withRowid) ==
    LET names == [j \in 1..Len(KeyedColumns(table)) |-> KeyedColumns(table)[j].name]
        cells(r) == [j \in 1..Len(names) |-> 10 * r + j]
    IN [columns |-> IF withRowid THEN <<INTERNAL_ROWID_COLUMN>> \o names ELSE names,
        rows |-> [r \in ShownRows |-> IF withRowid THEN <<r>> \o cells(r) ELSE cells(r)]]

\* updateRow / deleteRow come to buildWhereClause(identifier) with the
\* identifier rowsWithMeta derived for row r of the page.
buildWhere(c, table, withRowid, r) ==
    /\ pc[c] = "idle"
    /\ LET shown == ShownData(table, withRowid)
           identifier == rowsWithMeta(shown, KeyedColumns(table))[r]
       IN /\ args' = [args EXCEPT ![c] = [identifier |-> identifier, values |-> <<>>,
                                          table |-> table, columns |-> shown.columns,
                                          row |-> shown.rows[r]]]
          /\ returned' = [returned EXCEPT ![c] = Some(buildWhereClause(identifier))]
    /\ pc' = [pc EXCEPT ![c] = "done"]
    /\ kind' = [kind EXCEPT ![c] = "buildWhereClause"]
    /\ UNCHANGED <<db, raised, buf, storeQueue, stored, size, cfgVars, result, browseVars,
                   storeVars, filterVars>>

\* buildWhereClause(null): the `if (!identifier)` branch.
buildWhereNull(c) ==
    /\ pc[c] = "idle"
    /\ args' = [args EXCEPT ![c] = [identifier |-> NullIdentifier, values |-> <<>>,
                                    table |-> "h", columns |-> <<>>, row |-> <<>>]]
    /\ returned' = [returned EXCEPT ![c] = Some(buildWhereClause(NullIdentifier))]
    /\ pc' = [pc EXCEPT ![c] = "done"]
    /\ kind' = [kind EXCEPT ![c] = "buildWhereClause"]
    /\ UNCHANGED <<db, raised, buf, storeQueue, stored, size, cfgVars, result, browseVars,
                   storeVars, filterVars>>

NextWhere ==
    \/ \E c \in Calls, table \in KeyedTables, withRowid \in BOOLEAN, r \in ShownRows :
          buildWhere(c, table, withRowid, r)
    \/ \E c \in Calls : buildWhereNull(c)

SpecWhere == InitMut /\ [][NextWhere]_vars

----------------------------------------------------------------------------
(* Claims about buildWhereClause, checked under SpecWhere *)

WhereBuilt(c) == kind[c] = "buildWhereClause" /\ pc[c] = "done"

\* The primary-key ordinal of a column of the call's table (0: not in the key).
PkOrdinal(c, name) ==
    LET cols == KeyedColumns(args[c].table)
    IN IF \E j \in 1..Len(cols) : cols[j].name = name
       THEN cols[CHOOSE j \in 1..Len(cols) : cols[j].name = name].pk
       ELSE 0

\* The key columns of the call's table.
KeyNames(c) ==
    {KeyedColumns(args[c].table)[j].name :
        j \in {i \in 1..Len(KeyedColumns(args[c].table)) : KeyedColumns(args[c].table)[i].pk > 0}}

\* The value the call's row holds in a column.
Cell(c, name) ==
    args[c].row[CHOOSE j \in 1..Len(args[c].columns) : args[c].columns[j] = name]

HasRowid(c) == args[c].identifier.defined /\ args[c].identifier.rowid # Nothing

HasKey(c) ==
    /\ args[c].identifier.defined
    /\ args[c].identifier.pk.defined
    /\ args[c].identifier.pk.entries # <<>>

\* The clause names each key column once, bound to the row's value in it.
OverTheKey(c, where) ==
    /\ Len(where.clause) = Cardinality(KeyNames(c))
    /\ Len(where.params) = Len(where.clause)
    /\ {where.clause[i] : i \in 1..Len(where.clause)} = KeyNames(c)
    /\ \A i \in 1..Len(where.clause) : where.params[i] = Cell(c, where.clause[i])

\* The clause lists the key columns in primary-key ordinal order.
InOrdinalOrder(c, where) ==
    \A i, j \in 1..Len(where.clause) :
        i < j => PkOrdinal(c, where.clause[i]) < PkOrdinal(c, where.clause[j])

\* The order of JS property enumeration: array-index names first, ascending,
\* then the other names in primary-key ordinal order.
IndexOf(name) == CHOOSE n \in 1..Len(ArrayIndexKeys) : ArrayIndexKeys[n] = name

InEnumerationOrder(c, where) ==
    \A i, j \in 1..Len(where.clause) :
        i < j =>
           LET a == where.clause[i]
               b == where.clause[j]
           IN \/ IsArrayIndex(a) /\ ~IsArrayIndex(b)
              \/ IsArrayIndex(a) /\ IsArrayIndex(b) /\ IndexOf(a) < IndexOf(b)
              \/ ~IsArrayIndex(a) /\ ~IsArrayIndex(b) /\ PkOrdinal(c, a) < PkOrdinal(c, b)

WhereOf(c, ordered(_, _)) ==
    LET where == returned[c][1] IN
    /\ HasRowid(c) =>
          where = [clause |-> <<"rowid">>, params |-> <<args[c].identifier.rowid[1]>>]
    /\ (~HasRowid(c) /\ HasKey(c)) => OverTheKey(c, where) /\ ordered(c, where)
    /\ (~HasRowid(c) /\ ~HasKey(c)) => where = [clause |-> <<>>, params |-> <<>>]

----------------------------------------------------------------------------
(* Claim about sorting by a column header, checked under SpecFilter *)

\* In this step a click on a column header changed the sort state.
SortClicked ==
    /\ tableName # Nothing
    /\ tableName' = tableName
    /\ <<sortColumn', sortDirection'>> # <<sortColumn, sortDirection>>

\* The click moved the sort state to ascending on another column, or on the
\* sorted column from ascending to descending or from descending to none.
SortCycled ==
    \/ /\ sortColumn' # Nothing /\ sortColumn' # sortColumn
       /\ sortDirection' = Some("asc")
    \/ /\ sortColumn' = sortColumn /\ sortColumn # Nothing
       /\ sortDirection = Some("asc") /\ sortDirection' = Some("desc")
    \/ /\ sortColumn # Nothing /\ sortDirection = Some("desc")
       /\ sortColumn' = Nothing /\ sortDirection' = Nothing

\* Statement st has an ORDER BY on the column in the direction.
OrdersBy(st, column, direction) ==
    \E i \in 1..(Len(st.text) - 2) :
        /\ st.text[i] = Sql("ORDER BY")
        /\ st.text[i + 1] = Quoted(column)
        /\ st.text[i + 2] = Sql(direction)

Unordered(st) == \A i \in 1..Len(st.text) : st.text[i] # Sql("ORDER BY")

\* C29 (as claimed): a click on a column header moves the sort state to
\* ascending on a new column and through ascending, descending, none on the
\* same column, and the table query that click issues is ordered by the state
\* the click selected. Violated: the query is composed from the state before
\* the click.
C29_ClickOrdersItsQuery ==
    [][SortClicked =>
          /\ SortCycled
          /\ issued' # <<>>
          /\ IF sortColumn' # Nothing /\ sortDirection' # Nothing
             THEN \E i \in 1..Len(issued') :
                     OrdersBy(issued'[i], Head(sortColumn'), Head(sortDirection'))
             ELSE \A i \in 1..Len(issued') : Unordered(issued'[i])]_vars

----------------------------------------------------------------------------
(* Claims about loading and removing databases, checked under SpecStore *)

\* In this step the store request of a call made by `origin` completes and
\* the call resumes after its await.
Resumes(origin) ==
    /\ requests # <<>>
    /\ Head(requests).origin = origin
    /\ requests' = Tail(requests)

\* C22 (as claimed): when removeDatabase(id) returns, the database's handle is
\* closed, id is gone from the loaded table and from the persistent store, the
\* selection is cleared if and only if it was id, and the other loaded
\* databases are as they were. (For an id that is not loaded the call returns
\* at once and changes nothing.) Violated: a rejected delete request is caught
\* and logged, the record stays in the store and the call returns normally.
C22_RemoveDatabaseRemoves ==
    [][Resumes("removeDatabase") =>
          LET id == Head(requests).id IN
          /\ id \notin databases'
          /\ id \notin DOMAIN dbOf'
          /\ \A h \in opened : h[1] = id => h \in closed'
          /\ id \notin persisted'
          /\ currentDatabaseId' = IF currentDatabaseId = Some(id) THEN Nothing
                                  ELSE currentDatabaseId
          /\ databases' = databases
          /\ dbOf' = dbOf
          /\ persisted' \ {id} = persisted \ {id}]_vars

\* C23 (as claimed): while allowLargeFiles is false no upload makes a file
\* larger than 200 MB a loaded database. Violated: loadLargeDatabase, to which
\* the upload handlers send every file above 200 MB, checks neither the size
\* nor allowLargeFiles.
C23_LargeFileIsRejected ==
    [][(~allowLargeFiles /\ nextDatabaseId' # nextDatabaseId) =>
          files'[nextDatabaseId].size <= MAX_DB_SIZE_BYTES]_vars

\* C24 (as claimed): a database loaded through loadLargeDatabase never has a
\* record in the persistent store. Violated: a mutation on it writes its image
\* to the store like that of any other database.
C24_LargeDatabaseIsNeverStored ==
    \A id \in DOMAIN files :
        files[id].method = "loadLargeDatabase" => id \notin persisted

\* C27 (as claimed): in every state, await points included, the selected
\* database is a key of the loaded table and the active handle is the open
\* handle stored under that key. Violated: between removeDatabase's
\* databases.delete and the code after its await the removed database is still
\* selected, with a closed handle.
C27_SelectionIsLoaded ==
    currentDatabaseId # Nothing =>
        /\ Head(currentDatabaseId) \in databases
        /\ currentDatabase = Some(dbOf[Head(currentDatabaseId)])
        /\ dbOf[Head(currentDatabaseId)] \notin closed

\* C28 (as claimed): a loadDatabase call that fails leaves no trace: the file
\* is not in the loaded table, not selected and not in the store. Violated:
\* databases.set precedes the store write and the catch block does not undo it.
C28_FailedLoadLeavesNoTrace ==
    [][(Resumes("loadDatabase") /\ Head(requests).id \notin loaded') =>
          LET id == Head(requests).id IN
          /\ id \notin databases'
          /\ currentDatabaseId' # Some(id)
          /\ id \notin persisted'
          /\ databases' \ {id} = databases \ {id}
          /\ persisted' \ {id} = persisted \ {id}]_vars

----------------------------------------------------------------------------
(* Components initializing the manager concurrently (SpecRace) *)

\* Home and SidebarNavigation both await initialize() in their mount effects;
\* files are loaded and stored, and the page is reloaded.
NextRace ==
    \/ \E caller \in InitCallers : initialize(caller)
    \/ \E caller \in InitCallers, readOk \in BOOLEAN, broken \in SUBSET persisted,
          deleteOk \in BOOLEAN : initializeRestore(caller, readOk, broken, deleteOk)
    \/ \E opens \in BOOLEAN : loadDatabase(MAX_DB_SIZE_BYTES, opens)
    \/ \E id \in DatabaseIds : removeDatabase(id)
    \/ \E ok \in BOOLEAN : requestDone(ok)
    \/ reload

SpecRace == InitStore /\ [][NextRace]_vars

\* The handles opened for database id in this session.
HandlesOf(id) == {h \in opened : h[1] = id}

\* C26 (as claimed): when components call initialize concurrently, the stored
\* databases are restored once: at most one handle is opened per database, and
\* every handle that is open is the one the loaded table holds for its
\* database. Violated: initialize has no guard for a call in flight, each
\* caller restores, and the second databases.set replaces the first handle
\* without closing it.
C26_RestoredOnce ==
    /\ \A id \in DatabaseIds : Cardinality(HandlesOf(id)) <= 1
    /\ \A h \in opened \ closed : h[1] \in databases /\ dbOf[h[1]] = h

============================================================================
